---- MODULE Spec2Model ----
(***************************************************************************)
(* Verification model of the metadata cache of prism-py / forge-py:        *)
(* ModelManager (src/src/forge/db/models.py), its reload entry point       *)
(* clear_cache (src/src/forge/api/health.py) and the metadata readers      *)
(* (src/src/forge/api/metadata.py).                                        *)
(*                                                                         *)
(* ModelManager holds no lock and the load stages are plain synchronous    *)
(* methods doing blocking database calls, so a load pass is modelled as a  *)
(* thread of control that advances one loop iteration at a time; readers   *)
(* and other passes may run between two iterations.                        *)
(***************************************************************************)
EXTENDS Integers, Sequences, FiniteSets, TLC

(***************************************************************************)
(* Bounds                                                                  *)
(***************************************************************************)
MaxReloads == 1      \* reload requests accepted per serving thread
MaxDDL == 1          \* catalog changes made by the environment
MaxRows == 2         \* pg_proc rows when routine discovery is checked alone
MaxArgLen == 5       \* symbols of an argument string given to parse_parameters
MaxCols == 2         \* columns of a well-formed TABLE(...) return type
MaxTypeLen == 3
MaxParams == 2
MaxCalls == 2      \* symbols of an arbitrary return-type string

(***************************************************************************)
(* Fixed environment                                                       *)
(***************************************************************************)
Procs == {1, 2}                      \* threads able to run a load pass
include_schemas == <<"s1">>
exclude_tables == {}
None == "None"

Collections == {"table_cache", "view_cache", "enum_cache",
                "fn_cache", "proc_cache", "trig_cache"}

\* Columns as reflected by SQLAlchemy: name, str(column.type), nullable,
\* primary_key, and the values of an Enum type.
Col(n, t, nullable, pk, enums) ==
    [name |-> n, type |-> t, nullable |-> nullable, primary_key |-> pk, enums |-> enums]

T1 == [name |-> "t1", schema |-> "s1",
       columns |-> << Col("id", "INTEGER", FALSE, TRUE, <<>>),
                      Col("data", "JSONB", TRUE, FALSE, <<>>),
                      Col("status", "ENUM", FALSE, FALSE, <<"x", "y">>) >>]
\* the same table declared without a primary key
T1NoPk == [name |-> "t1", schema |-> "s1",
           columns |-> << Col("id", "INTEGER", FALSE, FALSE, <<>>),
                          Col("data", "JSONB", TRUE, FALSE, <<>>),
                          Col("status", "ENUM", FALSE, FALSE, <<"x", "y">>) >>]
T2 == [name |-> "t2", schema |-> "s1",
       columns |-> << Col("id", "INTEGER", FALSE, TRUE, <<>>),
                      Col("status", "ENUM", FALSE, FALSE, <<"z">>) >>]
V1 == [name |-> "v1", schema |-> "s1",
       columns |-> << Col("id", "INTEGER", TRUE, FALSE, <<>>),
                      Col("data", "JSONB", TRUE, FALSE, <<>>) >>]

\* db_client.metadata.tables.values(): the Table objects reflected when the
\* client was created, in insertion order.
MetadataChoices == { <<T1, T2, V1>>, <<T1NoPk, T2, V1>> }

TableNames == {"t1", "t2"}
ViewNames == {"v1"}
\* the relations with a JSONB column: what their first row holds in it
JsonRelations == {"t1", "v1"}
RowStates == {"empty", "row_dict", "row_list"}

(***************************************************************************)
(* pg_proc rows of the live catalog.  An argument string is a sequence of  *)
(* symbols: " " and "," are the blank and the comma, every other symbol is *)
(* a run of non-blank, non-comma characters.  A return type                *)
(* (pg_get_function_result) is a sequence of symbols too, with "(", ")"    *)
(* and "." symbols of their own.                                           *)
(***************************************************************************)
\* `word in text`, for a word that is one symbol
HasWord(text, word) == \E i \in DOMAIN text : text[i] = word

ProcRow(oid, name, args, ret, kind, tgrefs) ==
    [oid |-> oid, schema |-> "s1", name |-> name, arguments |-> args,
     return_type |-> ret, kind |-> kind, tgrefs |-> tgrefs, returns_set |-> FALSE]

R_f == ProcRow(1, "f", <<"x", " ", "int">>, <<"integer">>, "f", 0)
R_g == ProcRow(2, "g", <<>>, <<"trigger">>, "f", 1)
R_p == ProcRow(3, "p", <<"IN", " ", "x", " ", "int">>, <<"void">>, "p", 0)

CatalogRoutines == {R_f, R_g, R_p}

\* collation order of the routine names used by ORDER BY schema, name
NameOrder == <<"f", "g", "p">>
NameRank(n) == CHOOSE i \in DOMAIN NameOrder : NameOrder[i] = n

VARIABLES
    catalog,       \* live database catalog: table names, view names, pg_proc rows
    metadata,      \* db_client.metadata.tables.values()
    table_cache, view_cache, enum_cache, fn_cache, proc_cache, trig_cache,
    proc,          \* per thread: the load pass it runs (see IdleProc)
    threads,       \* the threads that serve reload requests
    built,         \* ModelManager construction has returned
    reloads,       \* reload requests accepted so far
    ddl,           \* catalog changes made so far
    obs,           \* what the metadata read served by the last step returned
    pg_proc,       \* routine discovery alone: the pg_proc rows of the catalog
    discovery,     \* routine discovery alone: the call's position, rows and dicts
    arguments,     \* parse_parameters alone: the argument string it is given
    parsing,       \* parse_parameters alone: the call's position and result
    declared,      \* route generation alone: the return type the routine declares
    fn_metadata,   \* route generation alone: the FunctionMetadata it is given
    route,         \* route generation alone: the fields each generator built
    calls,         \* the invocations a generated route has served, in order
    filters,       \* list queries alone: the query parameters of the request
    plan,          \* list queries alone: the query each translation built
    request,       \* one request alone: what the handler is given and reads
    reply          \* one request alone: what the handler answered and did

cachevars == <<table_cache, view_cache, enum_cache, fn_cache, proc_cache, trig_cache>>
passvars == <<catalog, metadata, cachevars, proc, threads, built, reloads, ddl, obs>>
routinevars == <<pg_proc, discovery>>
parsevars == <<arguments, parsing>>
plannervars == <<declared, fn_metadata, route, calls>>
filtervars == <<filters, plan>>
servevars == <<request, reply>>
vars == <<passvars, routinevars, parsevars, plannervars, filtervars, servevars>>

Empty == << >>     \* an empty dict

\* dict[key] = value
Put(d, k, v) == [x \in (DOMAIN d) \cup {k} |-> IF x = k THEN v ELSE d[x]]

Caches == [table_cache |-> table_cache, view_cache |-> view_cache,
           enum_cache |-> enum_cache, fn_cache |-> fn_cache,
           proc_cache |-> proc_cache, trig_cache |-> trig_cache]

(***************************************************************************)
(* Type mapping and field construction                                     *)
(***************************************************************************)
\* get_eq_type: JSON/JSONB names map to a structured descriptor, names with
\* an array suffix to an array descriptor, everything else to a scalar; the
\* sample never changes the descriptor's variant.
get_eq_type(sql_type, sample, nullable) ==
    IF sql_type \in {"JSON", "JSONB"} THEN "JSONBType"
    ELSE IF sql_type \in {"INTEGER[]", "TEXT[]"} THEN "ArrayType"
    ELSE "scalar"

SampleOutcomes == {"error", "empty", "row_dict", "row_list"}

\* The row SELECT * ... LIMIT 1 returns: every JSONB column holds `json`.
SampleRow(table, json) ==
    [n \in {table.columns[i].name : i \in DOMAIN table.columns} |->
        LET col == CHOOSE c \in {table.columns[i] : i \in DOMAIN table.columns} : c.name = n
        IN IF col.type \in {"JSON", "JSONB"} THEN json ELSE "scalar"]

\* _get_sample_data: the try block around session acquisition and the
\* SELECT; `raised` tells whether an exception leaves the method.
\* A sample is NoSample (Python None) or Some(row).
NoSample == [some |-> FALSE]
Some(row) == [some |-> TRUE, row |-> row]

\* a variant without the except clause: the error leaves the method
_get_sample_data_propagating(table, outcome) ==
    CASE outcome = "error"    -> [raised |-> TRUE, value |-> NoSample]
      [] outcome = "empty"    -> [raised |-> FALSE, value |-> NoSample]
      [] outcome = "row_dict" -> [raised |-> FALSE, value |-> Some(SampleRow(table, "dict"))]
      [] outcome = "row_list" -> [raised |-> FALSE, value |-> Some(SampleRow(table, "list"))]

_get_sample_data(table, outcome) ==
    CASE outcome = "error"    -> [raised |-> FALSE, value |-> NoSample]
      [] outcome = "empty"    -> [raised |-> FALSE, value |-> NoSample]
      [] outcome = "row_dict" -> [raised |-> FALSE, value |-> Some(SampleRow(table, "dict"))]
      [] outcome = "row_list" -> [raised |-> FALSE, value |-> Some(SampleRow(table, "list"))]

\* sample_data.get(column.name) if sample_data else None
SampleValue(sample_data, name) ==
    IF sample_data.some /\ name \in DOMAIN sample_data.row
    THEN sample_data.row[name] ELSE None

\* the field of a column built without looking at the sample
TableField_ignoring_sample(column, sample_data) ==
    LET field_type == get_eq_type(column.type, SampleValue(sample_data, column.name),
                                  column.nullable)
    IN  IF field_type = "JSONBType"
        THEN [shape |-> "model", optional |-> column.nullable]
        ELSE IF field_type = "ArrayType"
        THEN [shape |-> "List[item]", optional |-> column.nullable]
        ELSE [shape |-> "scalar", optional |-> column.nullable]

\* the field built for one column of a table (models.py:92-138)
TableField(column, sample_data) ==
    LET field_type == get_eq_type(column.type, SampleValue(sample_data, column.name),
                                  column.nullable)
    IN  IF field_type = "JSONBType"
        THEN IF sample_data.some /\ column.name \in DOMAIN sample_data.row
                /\ sample_data.row[column.name] = "list"
             THEN [shape |-> "List[model]", optional |-> column.nullable]
             ELSE [shape |-> "model", optional |-> column.nullable]
        ELSE IF field_type = "ArrayType"
        THEN [shape |-> "List[item]", optional |-> column.nullable]
        ELSE [shape |-> "scalar", optional |-> column.nullable]

\* the response field built for one column of a view (models.py:232-261)
ViewField(column, sample_data) ==
    LET field_type == get_eq_type(column.type, SampleValue(sample_data, column.name),
                                  column.nullable)
    IN  IF field_type = "JSONBType"
        THEN IF sample_data.some /\ column.name \in DOMAIN sample_data.row
                /\ sample_data.row[column.name] = "list"
             THEN [shape |-> "List[model]", optional |-> FALSE]
             ELSE [shape |-> "model", optional |-> column.nullable]
        ELSE IF field_type = "ArrayType"
        THEN [shape |-> "List[item]", optional |-> FALSE]
        ELSE [shape |-> "scalar", optional |-> FALSE]

ColumnNames(table) == {table.columns[i].name : i \in DOMAIN table.columns}
ColumnNamed(table, n) ==
    CHOOSE c \in {table.columns[i] : i \in DOMAIN table.columns} : c.name = n

TableFields(table, sample_data) ==
    [n \in ColumnNames(table) |-> TableField(ColumnNamed(table, n), sample_data)]
ViewFields(table, sample_data) ==
    [n \in ColumnNames(table) |-> ViewField(ColumnNamed(table, n), sample_data)]

\* type("SQLAlchemy_...", (BaseSQLModel,), {...}) maps the class on the table;
\* the mapper raises ArgumentError when it can assemble no primary key.
MapperRaises(table) ==
    \A i \in DOMAIN table.columns : ~table.columns[i].primary_key

\* key = f"{schema}.{table.name}"
Key(schema, name) == schema \o "." \o name

(***************************************************************************)
(* _discover_functions                                                     *)
(***************************************************************************)
\* a variant of the CASE that looks at prokind alone
object_type_by_kind(p) ==
    IF p.kind = "p" THEN "procedure" ELSE "function"

\* the CASE ... END AS object_type of the catalog query (models.py:319-327)
object_type(p) ==
    IF p.tgrefs > 0 \/ p.return_type = <<"trigger">> THEN "trigger"
    ELSE IF p.kind = "p" THEN "procedure"
    ELSE "function"

\* SELECT * FROM function_info ORDER BY schema, name: the rows of the
\* included schemas with their object_type; rows of equal name come in an
\* order the database chooses.
function_info(procs) ==
    LET rows == {p @@ [object_type |-> object_type(p)] :
                    p \in {q \in procs : \E i \in DOMAIN include_schemas :
                                            q.schema = include_schemas[i]}}
    IN {r \in [1..Cardinality(rows) -> rows] :
          /\ \A i, j \in DOMAIN r : i # j => r[i] # r[j]
          /\ \A i, j \in DOMAIN r : i < j => NameRank(r[i].name) <= NameRank(r[j].name)}

\* a variant that classifies by returns_set and kind alone
determine_function_type_by_kind(row) ==
    IF row.returns_set THEN "SET_RETURNING"
    ELSE IF row.kind = "a" THEN "AGGREGATE"
    ELSE IF row.kind = "w" THEN "WINDOW"
    ELSE "SCALAR"

determine_function_type(row) ==
    IF row.returns_set THEN "SET_RETURNING"
    ELSE IF HasWord(row.return_type, "TABLE") THEN "TABLE"
    ELSE IF row.kind = "a" THEN "AGGREGATE"
    ELSE IF row.kind = "w" THEN "WINDOW"
    ELSE "SCALAR"

Modes == {"IN", "OUT", "INOUT", "VARIADIC"}

\* str.upper() of a symbol
Upper(w) ==
    CASE w = "in" -> "IN" [] w = "out" -> "OUT" [] w = "inout" -> "INOUT"
      [] w = "variadic" -> "VARIADIC" [] OTHER -> w

\* str.split(", "): cut at every occurrence of the separator, left to right
RECURSIVE SplitSep(_, _)
SplitSep(s, cur) ==
    IF s = <<>> THEN <<cur>>
    ELSE IF Len(s) >= 2 /\ s[1] = "," /\ s[2] = " "
         THEN <<cur>> \o SplitSep(SubSeq(s, 3, Len(s)), <<>>)
         ELSE SplitSep(Tail(s), Append(cur, s[1]))

\* str.split(): the maximal runs of non-blank symbols
RECURSIVE SplitWs(_, _)
SplitWs(s, cur) ==
    IF s = <<>> THEN (IF cur = <<>> THEN <<>> ELSE <<cur>>)
    ELSE IF s[1] = " "
         THEN (IF cur = <<>> THEN <<>> ELSE <<cur>>) \o SplitWs(Tail(s), <<>>)
         ELSE SplitWs(Tail(s), Append(cur, s[1]))

\* " ".join(parts)
RECURSIVE Join(_)
Join(parts) ==
    IF parts = <<>> THEN <<>>
    ELSE IF Len(parts) = 1 THEN parts[1]
    ELSE parts[1] \o <<" ">> \o Join(Tail(parts))

\* a token compared with the mode keywords after upper()
UpperWord(w) == [i \in DOMAIN w |-> Upper(w[i])]
IsModeWord(w) == Len(w) = 1 /\ Upper(w[1]) \in Modes

\* a variant reading parts[1] without the length guard of line 414: a lone
\* mode keyword raises IndexError
parse_parameter_unguarded(arg) ==
    LET parts == SplitWs(arg, <<>>)
    IN  IF parts # <<>> /\ IsModeWord(parts[1])
        THEN [raised |-> Len(parts) <= 1,
              mode |-> UpperWord(parts[1])[1],
              name |-> IF Len(parts) > 1 THEN parts[2] ELSE <<>>,
              type |-> IF Len(parts) > 2 THEN Join(SubSeq(parts, 3, Len(parts))) ELSE <<>>]
        ELSE [raised |-> FALSE,
              mode |-> "IN",
              name |-> IF parts # <<>> THEN parts[1] ELSE <<>>,
              type |-> IF Len(parts) > 1 THEN Join(Tail(parts)) ELSE <<>>]

\* one iteration of the loop of parse_parameters (models.py:407-424);
\* `raised` tells whether an IndexError leaves it: every index is guarded
parse_parameter(arg) ==
    LET parts == SplitWs(arg, <<>>)
    IN  IF parts # <<>> /\ IsModeWord(parts[1])
        THEN [raised |-> FALSE,
              mode |-> UpperWord(parts[1])[1],
              name |-> IF Len(parts) > 1 THEN parts[2] ELSE <<>>,
              type |-> IF Len(parts) > 2 THEN Join(SubSeq(parts, 3, Len(parts))) ELSE <<>>]
        ELSE [raised |-> FALSE,
              mode |-> "IN",
              name |-> IF parts # <<>> THEN parts[1] ELSE <<>>,
              type |-> IF Len(parts) > 1 THEN Join(Tail(parts)) ELSE <<>>]

\* the list parse_parameters builds, one FunctionParameter per entry
parse_parameters(args_str) ==
    IF args_str = <<>> THEN <<>>
    ELSE LET args == SplitSep(args_str, <<>>)
         IN [i \in DOMAIN args |-> parse_parameter(args[i])]

\* the call raises when one of its iterations does
parse_raises(args_str) ==
    \E i \in DOMAIN parse_parameters(args_str) : parse_parameters(args_str)[i].raised

\* FunctionMetadata(...) built for one row (models.py:433-445); `pass` is
\* the number of the load pass that built it.
RoutineMetadata(row, pass) ==
    [schema |-> row.schema, name |-> row.name, oid |-> row.oid,
     return_type |-> IF row.return_type # <<>> THEN row.return_type ELSE <<"void">>,
     parameters |-> [i \in DOMAIN parse_parameters(row.arguments) |->
                       [mode |-> parse_parameters(row.arguments)[i].mode,
                        name |-> parse_parameters(row.arguments)[i].name,
                        type |-> parse_parameters(row.arguments)[i].type]],
     type |-> determine_function_type(row),
     object_type |-> row.object_type, pass |-> pass]

\* the loop over the result rows (models.py:432-464): the three local dicts
RECURSIVE Categorize(_, _, _)
Categorize(result, pass, acc) ==
    IF result = <<>> THEN acc
    ELSE LET row == Head(result)
             key == Key(row.schema, row.name)
             md == RoutineMetadata(row, pass)
         IN Categorize(Tail(result), pass,
              IF row.object_type = "trigger"
              THEN [acc EXCEPT !.trigger_cache = Put(@, key, md)]
              ELSE IF row.object_type = "procedure"
              THEN [acc EXCEPT !.procedure_cache = Put(@, key, md)]
              ELSE IF row.object_type = "function"
              THEN [acc EXCEPT !.function_cache = Put(@, key, md)]
              ELSE acc)

_discover_functions(result, pass) ==
    Categorize(result, pass,
               [function_cache |-> Empty, procedure_cache |-> Empty, trigger_cache |-> Empty])

(***************************************************************************)
(* Load passes                                                             *)
(***************************************************************************)
\* a variant of the reload that loads the views before the enums
clear_cache_reordered == <<"_load_models", "_load_views", "_load_enums", "_load_functions">>

\* the stage calls of ModelManager.__post_init__ and of clear_cache, in order
post_init == <<"_load_models", "_load_enums", "_load_views", "_load_functions">>
clear_cache == <<"_load_models", "_load_enums", "_load_views", "_load_functions">>

Stages == {"_load_models", "_load_enums", "_load_views", "_load_functions"}

\* A thread's pass: pc is the stage being run ("idle", "done", "failed"
\* outside a pass), idx the loop position inside it, local the dicts
\* returned by _discover_functions, pass the number of the pass (0 is the
\* initial build), log the stages it has completed, cause why it failed,
\* response what the initiator got, before the collections at its start
\* (kept until the pass succeeds), queries the routine queries it has run,
\* sample whether the sample fetch of its last iteration failed, ddl0 the
\* number of catalog changes made before it started.
NoLocal == [function_cache |-> Empty, procedure_cache |-> Empty, trigger_cache |-> Empty]
IdleProc == [pc |-> "idle", idx |-> 1, local |-> NoLocal, pass |-> 0, log |-> <<>>,
             cause |-> "none", response |-> "none", before |-> Empty, queries |-> 0,
             sample |-> "none", ddl0 |-> 0]

Active(st) == st.pc \in Stages

Handler(st) == IF st.pass = 0 THEN post_init ELSE clear_cache

\* the statement after the call of `stage` in the handler
After(handler, stage) ==
    LET i == CHOOSE i \in DOMAIN handler : handler[i] = stage
    IN IF i < Len(handler) THEN handler[i + 1] ELSE "done"

\* the stage returns normally
Finished(st) ==
    LET nxt == After(Handler(st), st.pc)
    IN [st EXCEPT !.pc = nxt, !.idx = 1, !.log = Append(@, st.pc),
                  !.local = NoLocal, !.sample = "none",
                  !.before = IF nxt = "done" THEN Empty ELSE @,
                  !.response = IF nxt # "done" THEN @
                               ELSE IF st.pass = 0 THEN "constructed" ELSE "success"]

\* one iteration of a stage's loop over metadata.tables.values() is over
Advanced(st) ==
    IF st.idx < Len(metadata) THEN [st EXCEPT !.idx = @ + 1, !.sample = "none"]
    ELSE Finished(st)

\* an exception leaves the stage: __post_init__ lets it propagate to the
\* constructor's caller, clear_cache catches it and answers status "error"
Failed(st, why) ==
    [st EXCEPT !.pc = "failed", !.cause = why, !.local = NoLocal, !.sample = "none",
               !.response = IF st.pass = 0 THEN "raised" ELSE "error"]

\* no metadata read was served by the step
NoObs == [coll |-> "none", passes |-> {}, inflight |-> FALSE]

InitPass ==
    /\ catalog = [tables |-> TableNames, views |-> ViewNames, routines |-> CatalogRoutines,
                  rows |-> [r \in JsonRelations |-> "empty"]]
    /\ metadata \in MetadataChoices
    /\ table_cache = Empty /\ view_cache = Empty /\ enum_cache = Empty
    /\ fn_cache = Empty /\ proc_cache = Empty /\ trig_cache = Empty
    /\ proc = [p \in Procs |-> IF p = 1 THEN [IdleProc EXCEPT !.pc = post_init[1],
                                                             !.before = Caches]
                               ELSE IdleProc]
    /\ built = FALSE
    /\ reloads = 0
    /\ ddl = 0
    /\ obs = NoObs

\* nothing calls _discover_functions or parse_parameters on their own
NoDiscovery == [pc |-> "idle", result |-> <<>>, caches |-> NoLocal]
NoParsing == [pc |-> "idle", parameters |-> <<>>]

\* no route is being generated
NoRoutine == [type |-> "SCALAR", return_type |-> <<"void">>]
NotRun == [pc |-> "idle"]
NoRoute == [prism |-> NotRun, forge |-> NotRun, prism_parsed |-> NotRun,
            forge_parsed |-> NotRun, input |-> NotRun]
Undeclared == [text |-> <<"void">>, columns |-> <<>>, wellformed |-> FALSE]
PlannerIdle ==
    declared = Undeclared /\ fn_metadata = NoRoutine /\ route = NoRoute /\ calls = <<>>
NotTranslated == [pc |-> "idle"]
NoPlan == [build |-> NotTranslated, read_resources |-> NotTranslated,
           _build_sql_query |-> NotTranslated]
FilterIdle == filters = Empty /\ plan = NoPlan
NoRequest == [pc |-> "none"]
NoReply == [pc |-> "idle"]
ServeIdle == request = NoRequest /\ reply = NoReply

\* one thread builds the ModelManager and serves the reload requests
Init ==
    /\ InitPass
    /\ threads = {1}
    /\ pg_proc = {} /\ discovery = NoDiscovery
    /\ arguments = <<>> /\ parsing = NoParsing
    /\ PlannerIdle
    /\ FilterIdle
    /\ ServeIdle

\* what SELECT * FROM schema.table LIMIT 1 can do now: the session or the
\* statement fails, or the first row (if any) comes back
SampleNow(table) ==
    {"error"} \cup {IF table.name \in JsonRelations THEN catalog.rows[table.name]
                    ELSE "empty"}

SampleMark(outcome) == IF outcome = "error" THEN "error" ELSE "ok"

\* _load_models: one iteration of the loop over metadata.tables.values()
LoadModelsStep(p) ==
    /\ proc[p].pc = "_load_models"
    /\ LET st == proc[p]
           table == metadata[st.idx]
           schema == include_schemas[1]
       IN IF table.name \in catalog.tables /\ table.name \notin exclude_tables
          THEN \E outcome \in SampleNow(table) :
                 LET sample == _get_sample_data(table, outcome)
                 IN IF sample.raised
                    THEN /\ proc' = [proc EXCEPT ![p] = Failed(st, "sample")]
                         /\ UNCHANGED table_cache
                    ELSE IF MapperRaises(table)
                    THEN /\ proc' = [proc EXCEPT ![p] =
                                        [Failed(st, "entity") EXCEPT
                                            !.sample = SampleMark(outcome)]]
                         /\ UNCHANGED table_cache
                    ELSE /\ table_cache' =
                              Put(table_cache, Key(schema, table.name),
                                  [table |-> table,
                                   fields |-> TableFields(table, sample.value),
                                   pass |-> st.pass])
                         /\ proc' = [proc EXCEPT ![p] =
                                        [Advanced(st) EXCEPT
                                            !.sample = SampleMark(outcome)]]
          ELSE /\ proc' = [proc EXCEPT ![p] = Advanced(st)]
               /\ UNCHANGED table_cache
    /\ UNCHANGED <<catalog, metadata, view_cache, enum_cache, fn_cache, proc_cache,
                   trig_cache, threads, built, reloads, ddl>>
    /\ obs' = NoObs
    /\ UNCHANGED <<routinevars, parsevars, plannervars, filtervars, servevars>>

\* the enum columns of a table put into the dict, first writer wins
RECURSIVE AddEnums(_, _, _, _, _)
AddEnums(cache, table, i, schema, pass) ==
    IF i > Len(table.columns) THEN cache
    ELSE LET column == table.columns[i]
             enum_name == column.name \o "_enum"
         IN AddEnums(IF column.type = "ENUM" /\ enum_name \notin DOMAIN cache
                     THEN Put(cache, enum_name,
                              [name |-> enum_name, values |-> column.enums,
                               schema |-> schema, pass |-> pass])
                     ELSE cache,
                     table, i + 1, schema, pass)

\* _load_enums: one iteration of the loop over metadata.tables.values()
LoadEnumsStep(p) ==
    /\ proc[p].pc = "_load_enums"
    /\ LET st == proc[p]
           table == metadata[st.idx]
           schema == include_schemas[1]
       IN /\ enum_cache' =
                IF table.name \in catalog.tables /\ table.name \notin exclude_tables
                THEN AddEnums(enum_cache, table, 1, schema, st.pass)
                ELSE enum_cache
          /\ proc' = [proc EXCEPT ![p] = Advanced(st)]
    /\ UNCHANGED <<catalog, metadata, table_cache, view_cache, fn_cache, proc_cache,
                   trig_cache, threads, built, reloads, ddl>>
    /\ obs' = NoObs
    /\ UNCHANGED <<routinevars, parsevars, plannervars, filtervars, servevars>>

\* _load_views: one iteration of the loop over metadata.tables.values()
LoadViewsStep(p) ==
    /\ proc[p].pc = "_load_views"
    /\ LET st == proc[p]
           table == metadata[st.idx]
           schema == include_schemas[1]
       IN IF table.name \in catalog.views
          THEN \E outcome \in SampleNow(table) :
                 LET sample == _get_sample_data(table, outcome)
                 IN IF sample.raised
                    THEN /\ proc' = [proc EXCEPT ![p] = Failed(st, "sample")]
                         /\ UNCHANGED view_cache
                    ELSE /\ view_cache' =
                              Put(view_cache, Key(schema, table.name),
                                  [table |-> table,
                                   fields |-> ViewFields(table, sample.value),
                                   pass |-> st.pass])
                         /\ proc' = [proc EXCEPT ![p] =
                                        [Advanced(st) EXCEPT
                                            !.sample = SampleMark(outcome)]]
          ELSE /\ proc' = [proc EXCEPT ![p] = Advanced(st)]
               /\ UNCHANGED view_cache
    /\ UNCHANGED <<catalog, metadata, table_cache, enum_cache, fn_cache, proc_cache,
                   trig_cache, threads, built, reloads, ddl>>
    /\ obs' = NoObs
    /\ UNCHANGED <<routinevars, parsevars, plannervars, filtervars, servevars>>

\* _load_functions, line 287: the one catalog query and its bucketing
DiscoverStep(p) ==
    /\ proc[p].pc = "_load_functions"
    /\ proc[p].idx = 1
    /\ \E result \in function_info(catalog.routines) :
          proc' = [proc EXCEPT ![p] =
                      [@ EXCEPT !.local = _discover_functions(result, proc[p].pass),
                                !.queries = @ + 1,
                                !.sample = "none",
                                !.idx = 2]]
    /\ UNCHANGED <<catalog, metadata, cachevars, threads, built, reloads, ddl>>
    /\ obs' = NoObs
    /\ UNCHANGED <<routinevars, parsevars, plannervars, filtervars, servevars>>

\* _load_functions, lines 289-291: the three assignments, one after another
AssignStep(p) ==
    /\ proc[p].pc = "_load_functions"
    /\ proc[p].idx \in 2..4
    /\ LET st == proc[p]
       IN /\ fn_cache' = IF st.idx = 2 THEN st.local.function_cache ELSE fn_cache
          /\ proc_cache' = IF st.idx = 3 THEN st.local.procedure_cache ELSE proc_cache
          /\ trig_cache' = IF st.idx = 4 THEN st.local.trigger_cache ELSE trig_cache
          /\ proc' = [proc EXCEPT ![p] = IF st.idx < 4 THEN [st EXCEPT !.idx = @ + 1]
                                         ELSE Finished(st)]
          /\ built' = (built \/ (st.idx = 4 /\ st.pass = 0))
    /\ UNCHANGED <<catalog, metadata, table_cache, view_cache, enum_cache, threads, reloads, ddl>>
    /\ obs' = NoObs
    /\ UNCHANGED <<routinevars, parsevars, plannervars, filtervars, servevars>>

\* the connection cannot be used: inspect(engine).get_table_names /
\* get_view_names of a loop iteration, or the session of the routine query,
\* raises
ConnectionFails(p) ==
    /\ Active(proc[p])
    /\ proc[p].pc = "_load_functions" => proc[p].idx = 1
    /\ proc' = [proc EXCEPT ![p] = Failed(@, "connection")]
    /\ UNCHANGED <<catalog, metadata, cachevars, threads, built, reloads, ddl>>
    /\ obs' = NoObs
    /\ UNCHANGED <<routinevars, parsevars, plannervars, filtervars, servevars>>

\* POST /health/clear-cache: a reload pass starts on a free thread
StartReload(p) ==
    /\ built
    /\ p \in threads
    /\ ~Active(proc[p])
    /\ reloads < MaxReloads * Cardinality(threads)
    /\ reloads' = reloads + 1
    /\ proc' = [proc EXCEPT ![p] = [IdleProc EXCEPT !.pc = clear_cache[1],
                                                    !.pass = reloads + 1,
                                                    !.before = Caches,
                                                    !.ddl0 = ddl]]
    /\ UNCHANGED <<catalog, metadata, cachevars, threads, built, ddl>>
    /\ obs' = NoObs
    /\ UNCHANGED <<routinevars, parsevars, plannervars, filtervars, servevars>>

\* the environment creates or drops a table, a view or a routine
CatalogChange ==
    /\ ddl < MaxDDL
    /\ ddl' = ddl + 1
    /\ \/ \E t \in TableNames :
            catalog' = [catalog EXCEPT !.tables =
                            IF t \in @ THEN @ \ {t} ELSE @ \cup {t}]
       \/ \E v \in ViewNames :
            catalog' = [catalog EXCEPT !.views =
                            IF v \in @ THEN @ \ {v} ELSE @ \cup {v}]
       \/ \E r \in CatalogRoutines :
            catalog' = [catalog EXCEPT !.routines =
                            IF r \in @ THEN @ \ {r} ELSE @ \cup {r}]
       \/ \E r \in JsonRelations, d \in RowStates :
            /\ d # catalog.rows[r]
            /\ catalog' = [catalog EXCEPT !.rows[r] = d]
    /\ UNCHANGED <<metadata, cachevars, proc, threads, built, reloads>>
    /\ obs' = NoObs
    /\ UNCHANGED <<routinevars, parsevars, plannervars, filtervars, servevars>>

\* a metadata route (get_tables, get_views, get_enums, get_functions,
\* get_procedures, get_triggers) iterates one collection
Read(c) ==
    /\ built
    /\ obs' = [coll |-> c,
               passes |-> {Caches[c][k].pass : k \in DOMAIN Caches[c]},
               inflight |-> \E p \in Procs : Active(proc[p])]
    /\ UNCHANGED <<catalog, metadata, cachevars, proc, threads, built, reloads, ddl>>
    /\ UNCHANGED <<routinevars, parsevars, plannervars, filtervars, servevars>>

Next ==
    \/ \E p \in Procs : LoadModelsStep(p)
    \/ \E p \in Procs : LoadEnumsStep(p)
    \/ \E p \in Procs : LoadViewsStep(p)
    \/ \E p \in Procs : DiscoverStep(p)
    \/ \E p \in Procs : AssignStep(p)
    \/ \E p \in Procs : ConnectionFails(p)
    \/ \E p \in Procs : StartReload(p)
    \/ CatalogChange
    \/ \E c \in Collections : Read(c)

Spec == Init /\ [][Next]_vars

\* the same program served by two threads, over a catalog nobody changes
InitConc ==
    /\ InitPass
    /\ threads = Procs
    /\ pg_proc = {} /\ discovery = NoDiscovery
    /\ arguments = <<>> /\ parsing = NoParsing
    /\ PlannerIdle
    /\ FilterIdle
    /\ ServeIdle

NextConc ==
    \/ \E p \in Procs : LoadModelsStep(p)
    \/ \E p \in Procs : LoadEnumsStep(p)
    \/ \E p \in Procs : LoadViewsStep(p)
    \/ \E p \in Procs : DiscoverStep(p)
    \/ \E p \in Procs : AssignStep(p)
    \/ \E p \in Procs : ConnectionFails(p)
    \/ \E p \in Procs : StartReload(p)
    \/ \E c \in Collections : Read(c)

SpecConc == InitConc /\ [][NextConc]_vars

(***************************************************************************)
(* Properties of the load passes                                           *)
(***************************************************************************)
Range(f) == {f[x] : x \in DOMAIN f}

\* a collection without the pass numbers of its entries
Contents(cache) == [k \in DOMAIN cache |-> [cache[k] EXCEPT !.pass = 0]]
AllContents(caches) == [c \in DOMAIN caches |-> Contents(caches[c])]

C2_FailedReloadKeepsCaches ==
    \A p \in Procs :
        (/\ proc[p].pc = "failed"
         /\ proc[p].pass > 0
         /\ "_load_models" \in Range(proc[p].log)
         /\ "_load_functions" \notin Range(proc[p].log))
        => /\ AllContents(Caches) = AllContents(proc[p].before)
           /\ proc[p].response = "error"

\* the keys a collection holds when it holds exactly the named relations
KeysOf(names) == {Key(include_schemas[1], n) : n \in names}
MetadataNames == {metadata[i].name : i \in DOMAIN metadata}
RoutineKeys(kind) ==
    {Key(r.schema, r.name) : r \in {q \in catalog.routines : object_type(q) = kind}}

\* C3: after a successful reload each collection holds exactly the entities
\* the catalog had at reload time, entities dropped since the previous pass
\* are gone, and every entry was built by that reload.
C3_ReloadReplacesCaches ==
    \A p \in Procs :
        (proc[p].pc = "done" /\ proc[p].pass > 0 /\ proc[p].ddl0 = ddl)
        => /\ DOMAIN table_cache = KeysOf(catalog.tables \cap MetadataNames)
           /\ DOMAIN view_cache = KeysOf(catalog.views \cap MetadataNames)
           /\ DOMAIN fn_cache = RoutineKeys("function")
           /\ DOMAIN proc_cache = RoutineKeys("procedure")
           /\ DOMAIN trig_cache = RoutineKeys("trigger")
           /\ \A c \in Collections \ {"enum_cache"} :
                 \A k \in DOMAIN Caches[c] : Caches[c][k].pass = proc[p].pass

StageOrder == <<"_load_models", "_load_enums", "_load_views", "_load_functions">>
IsPrefix(a, b) == Len(a) <= Len(b) /\ \A i \in DOMAIN a : a[i] = b[i]

\* C5: every pass runs load tables, load enums, load views, load functions in
\* that order, a stage starting only when the one before it has finished, and
\* it fills the function, procedure and trigger collections from one query.
C5_StagesInOrder ==
    \A p \in Procs :
        LET st == proc[p]
        IN /\ IsPrefix(st.log, StageOrder)
           /\ Active(st) => st.pc = StageOrder[Len(st.log) + 1]
           /\ st.pc = "done" => st.log = StageOrder /\ st.queries = 1
           /\ st.queries <= 1
           /\ (st.pc = "_load_functions" /\ st.idx > 1) =>
                 /\ st.queries = 1
                 /\ \A k \in DOMAIN st.local.function_cache :
                       st.local.function_cache[k].pass = st.pass
           /\ (st.pc = "done" /\ threads = {p}) =>
                 \A c \in {"fn_cache", "proc_cache", "trig_cache"} :
                    \A k \in DOMAIN Caches[c] : Caches[c][k].pass = st.pass

C5_Witness ==
    \E p \in Procs :
        /\ proc[p].pass > 0 /\ proc[p].pc = "done"
        /\ fn_cache # Empty /\ proc_cache # Empty /\ trig_cache # Empty

\* the schema and name of the entity an entry holds
EntityKey(c, entry) ==
    IF c \in {"table_cache", "view_cache"}
    THEN Key(entry.table.schema, entry.table.name)
    ELSE Key(entry.schema, entry.name)

\* the enum a later table of the load order declares under the same name
LaterEnumValues(name) ==
    LET decl == {<<i, j>> \in (DOMAIN metadata) \X (1..3) :
                    /\ j \in DOMAIN metadata[i].columns
                    /\ metadata[i].name \in catalog.tables
                    /\ metadata[i].columns[j].type = "ENUM"
                    /\ metadata[i].columns[j].name \o "_enum" = name}
        last == CHOOSE d \in decl : \A e \in decl : e[1] <= d[1]
    IN metadata[last[1]].columns[last[2]].enums

\* C6: every entry is stored under schema.name of its entity, and an entity
\* introspected later under the same schema and name replaces the earlier one.
C6_KeysAndOverwrite ==
    /\ \A c \in Collections :
          \A k \in DOMAIN Caches[c] : k = EntityKey(c, Caches[c][k])
    /\ \A p \in Procs :
          (proc[p].pc = "done" /\ proc[p].ddl0 = ddl) =>
              \A k \in DOMAIN enum_cache :
                  enum_cache[k].values = LaterEnumValues(enum_cache[k].name)

\* C7: an error raised while one table, view or routine is introspected never
\* fails the pass; a pass fails only when the connection cannot be used.
C7_EntityErrorsSkipped ==
    \A p \in Procs : proc[p].pc = "failed" => proc[p].cause = "connection"

\* the field of a column when only its declared SQL type is known
DeclaredShape(column) ==
    IF column.type \in {"JSON", "JSONB"} THEN "model"
    ELSE IF column.type \in {"INTEGER[]", "TEXT[]"} THEN "List[item]"
    ELSE "scalar"

\* C8: a failed sample fetch never fails the load of its table or view: the
\* entity is cached by the same iteration (unless its own mapping raises)
\* with every field derived from the declared SQL type alone.
C8_SampleFailureTolerated ==
    [][\A p \in Procs :
          /\ proc'[p].cause # "sample"
          /\ (/\ proc[p].pc \in {"_load_models", "_load_views"}
              /\ proc'[p] # proc[p]
              /\ proc'[p].sample = "error") =>
                LET table == metadata[proc[p].idx]
                    key == Key(include_schemas[1], table.name)
                    cache == IF proc[p].pc = "_load_models" THEN table_cache'
                             ELSE view_cache'
                IN  \/ proc[p].pc = "_load_models" /\ MapperRaises(table)
                    \/ /\ proc'[p].pc # "failed"
                       /\ key \in DOMAIN cache
                       /\ cache[key].pass = proc[p].pass
                       /\ \A n \in ColumnNames(table) :
                             cache[key].fields[n].shape =
                                DeclaredShape(ColumnNamed(table, n))]_vars

C8_Witness ==
    \E p \in Procs :
        /\ proc[p].sample = "error" /\ proc[p].pc # "failed"
        /\ \E k \in DOMAIN view_cache : view_cache[k].pass = proc[p].pass

(***************************************************************************)
(* _discover_functions on its own, over any small pg_proc                  *)
(***************************************************************************)
\* no ModelManager is being built and no pass runs
InitAlone ==
    /\ catalog = [tables |-> TableNames, views |-> ViewNames, routines |-> CatalogRoutines,
                  rows |-> [r \in JsonRelations |-> "empty"]]
    /\ metadata = <<T1, T2, V1>>
    /\ table_cache = Empty /\ view_cache = Empty /\ enum_cache = Empty
    /\ fn_cache = Empty /\ proc_cache = Empty /\ trig_cache = Empty
    /\ proc = [p \in Procs |-> IdleProc]
    /\ threads = {}
    /\ built = FALSE
    /\ reloads = 0
    /\ ddl = 0
    /\ obs = NoObs

RoutineNames == {"f", "g"}

\* pg_get_function_identity_arguments: routines of one name differ in it
RECURSIVE ArgList(_)
ArgList(n) ==
    IF n = 0 THEN <<>>
    ELSE IF n = 1 THEN <<"x", " ", "int">>
    ELSE ArgList(n - 1) \o <<",", " ", "x", " ", "int">>

\* what a pg_proc row says besides its oid and arguments
RowShapes == [name : RoutineNames, kind : {"f", "p"}, tgrefs : {0, 1},
              return_type : {<<"integer">>, <<"trigger">>}]

InitRoutines ==
    /\ InitAlone
    /\ \E present \in SUBSET (1..MaxRows), shape \in [1..MaxRows -> RowShapes] :
          pg_proc = {ProcRow(oid, shape[oid].name, ArgList(oid - 1),
                             shape[oid].return_type, shape[oid].kind,
                             shape[oid].tgrefs) : oid \in present}
    /\ discovery = NoDiscovery
    /\ arguments = <<>> /\ parsing = NoParsing
    /\ PlannerIdle
    /\ FilterIdle
    /\ ServeIdle

\* db.execute(text(query), {"schemas": self.include_schemas})
RunQuery ==
    /\ discovery.pc = "idle"
    /\ \E result \in function_info(pg_proc) :
          discovery' = [pc |-> "fetched", result |-> result, caches |-> NoLocal]
    /\ UNCHANGED <<passvars, pg_proc, parsevars, plannervars, filtervars, servevars>>

\* the loop over the rows and the return of the three dicts
BucketRows ==
    /\ discovery.pc = "fetched"
    /\ discovery' = [discovery EXCEPT !.pc = "returned",
                                      !.caches = _discover_functions(discovery.result, 0)]
    /\ UNCHANGED <<passvars, pg_proc, parsevars, plannervars, filtervars, servevars>>

NextRoutines == RunQuery \/ BucketRows

SpecRoutines == InitRoutines /\ [][NextRoutines]_vars

(***************************************************************************)
(* parse_parameters on its own, over every short argument string           *)
(***************************************************************************)
Alphabet == {"x", "OUT", "inout", " ", ","}
ArgStrings == UNION {[1..n -> Alphabet] : n \in 0..MaxArgLen}

InitParse ==
    /\ InitAlone
    /\ pg_proc = {} /\ discovery = NoDiscovery
    /\ arguments \in ArgStrings
    /\ parsing = NoParsing
    /\ PlannerIdle
    /\ FilterIdle
    /\ ServeIdle

\* parameters = parse_parameters(row.arguments)
ParseParameters ==
    /\ parsing.pc = "idle"
    /\ parsing' =
          IF parse_raises(arguments)
          THEN [pc |-> "raised", parameters |-> <<>>]
          ELSE [pc |-> "returned",
                parameters |-> [i \in DOMAIN parse_parameters(arguments) |->
                                   [mode |-> parse_parameters(arguments)[i].mode,
                                    name |-> parse_parameters(arguments)[i].name,
                                    type |-> parse_parameters(arguments)[i].type]]]
    /\ UNCHANGED <<passvars, routinevars, arguments, plannervars, filtervars, servevars>>

NextParse == ParseParameters

SpecParse == InitParse /\ [][NextParse]_vars

(***************************************************************************)
(* Properties of routine discovery                                         *)
(***************************************************************************)
Kinds == {"trigger", "procedure", "function"}

\* the classification a routine is to get
Classification(r) ==
    IF r.tgrefs > 0 \/ r.return_type = <<"trigger">> THEN "trigger"
    ELSE IF r.kind = "p" THEN "procedure"
    ELSE "function"

\* the dict _discover_functions returned for a classification
CacheOf(kind) ==
    CASE kind = "trigger" -> discovery.caches.trigger_cache
      [] kind = "procedure" -> discovery.caches.procedure_cache
      [] kind = "function" -> discovery.caches.function_cache

\* the dict of `kind` holds the routine of this row
Holds(kind, row) ==
    LET key == Key(row.schema, row.name)
    IN key \in DOMAIN CacheOf(kind) /\ CacheOf(kind)[key].oid = row.oid

\* a later row of the result has the same key and classification
Overwritten(i) ==
    \E j \in DOMAIN discovery.result :
        /\ j > i
        /\ discovery.result[j].schema = discovery.result[i].schema
        /\ discovery.result[j].name = discovery.result[i].name
        /\ Classification(discovery.result[j]) = Classification(discovery.result[i])

\* C9 as stated: every returned routine is classified trigger / procedure /
\* function by the stated precedence and is stored in exactly one dict, the
\* one of its classification.
C9_EveryRoutineStored ==
    discovery.pc = "returned" =>
        \A i \in DOMAIN discovery.result :
            LET row == discovery.result[i]
            IN /\ row.object_type = Classification(row)
               /\ \A kind \in Kinds : Holds(kind, row) <=> kind = Classification(row)

\* C9: every returned routine is classified by the stated precedence and is
\* written to the dict of its classification only, under schema.name; of the
\* routines sharing a name and a classification the last returned one is
\* the one stored, the earlier ones are in no dict.
C9_LastRoutineOfKeyStored ==
    discovery.pc = "returned" =>
        /\ \A i \in DOMAIN discovery.result :
              LET row == discovery.result[i]
              IN /\ row.object_type = Classification(row)
                 /\ \A kind \in Kinds :
                       Holds(kind, row) <=>
                          (kind = Classification(row) /\ ~Overwritten(i))
        /\ \A kind \in Kinds :
              /\ DOMAIN CacheOf(kind) =
                    {Key(discovery.result[i].schema, discovery.result[i].name) :
                        i \in {j \in DOMAIN discovery.result :
                                  Classification(discovery.result[j]) = kind}}
              /\ \A k \in DOMAIN CacheOf(kind) :
                    /\ CacheOf(kind)[k].object_type = kind
                    /\ k = Key(CacheOf(kind)[k].schema, CacheOf(kind)[k].name)

C9_Witness ==
    /\ discovery.pc = "returned"
    /\ \E i, j \in DOMAIN discovery.result :
          /\ i < j
          /\ discovery.result[i].name = discovery.result[j].name
          /\ discovery.result[i].kind = "p"
          /\ discovery.result[i].return_type = <<"trigger">>
          /\ discovery.result[j].tgrefs > 0
          /\ Holds("trigger", discovery.result[j])
          /\ ~Holds("trigger", discovery.result[i])

(***************************************************************************)
(* Properties of parse_parameters                                          *)
(***************************************************************************)
\* where the entries of an argument string are separated: a comma followed
\* by a blank
SepAt(s) == {i \in 1..(Len(s) - 1) : s[i] = "," /\ s[i + 1] = " "}
NthSep(s, n) == CHOOSE i \in SepAt(s) : Cardinality({j \in SepAt(s) : j < i}) = n - 1

\* the m-th entry of the string
EntryOf(s, m) ==
    LET lo == IF m = 1 THEN 1 ELSE NthSep(s, m - 1) + 2
        hi == IF m = Cardinality(SepAt(s)) + 1 THEN Len(s) ELSE NthSep(s, m) - 1
    IN SubSeq(s, lo, hi)

\* the whitespace-separated tokens of an entry, by position
TokenStarts(e) == {i \in 1..Len(e) : e[i] # " " /\ (i = 1 \/ e[i - 1] = " ")}
TokenEnd(e, i) ==
    CHOOSE j \in i..Len(e) :
        /\ \A k \in i..j : e[k] # " "
        /\ (j = Len(e) \/ e[j + 1] = " ")
NthStart(e, n) ==
    CHOOSE i \in TokenStarts(e) : Cardinality({j \in TokenStarts(e) : j < i}) = n - 1
TokensOf(e) ==
    [n \in 1..Cardinality(TokenStarts(e)) |->
        SubSeq(e, NthStart(e, n), TokenEnd(e, NthStart(e, n)))]

\* the mode a token names (keywords read in either case), or None
KeywordOf(token) ==
    IF Len(token) # 1 THEN None
    ELSE CASE token[1] \in {"IN", "in"} -> "IN"
           [] token[1] \in {"OUT", "out"} -> "OUT"
           [] token[1] \in {"INOUT", "inout"} -> "INOUT"
           [] token[1] \in {"VARIADIC", "variadic"} -> "VARIADIC"
           [] OTHER -> None

\* the parameter an entry is to become
ExpectedParameter(e) ==
    LET t == TokensOf(e)
        moded == t # <<>> /\ KeywordOf(t[1]) # None
        rest == IF moded THEN Tail(t) ELSE t
    IN [mode |-> IF moded THEN KeywordOf(t[1]) ELSE "IN",
        name |-> IF rest # <<>> THEN rest[1] ELSE <<>>,
        type |-> IF Len(rest) > 1 THEN Join(Tail(rest)) ELSE <<>>]

\* C10: parse_parameters never raises; the empty string gives no parameter
\* and any other string one parameter per entry: a leading IN / OUT / INOUT /
\* VARIADIC token (in either case) is the mode, the next token the name and
\* the remaining tokens the type; without it the mode is IN, the first token
\* the name and the remaining tokens the type.
C10_OneParameterPerEntry ==
    /\ parsing.pc # "raised"
    /\ parsing.pc = "returned" =>
          IF arguments = <<>> THEN parsing.parameters = <<>>
          ELSE /\ Len(parsing.parameters) = Cardinality(SepAt(arguments)) + 1
               /\ \A m \in DOMAIN parsing.parameters :
                     parsing.parameters[m] = ExpectedParameter(EntryOf(arguments, m))

C10_Witness ==
    /\ parsing.pc = "returned"
    /\ Len(parsing.parameters) = 2
    /\ parsing.parameters[1] = [mode |-> "OUT", name |-> <<>>, type |-> <<>>]
    /\ parsing.parameters[2] = [mode |-> "IN", name |-> <<"x">>, type |-> <<>>]

(***************************************************************************)
(* Output fields of a function route (ApiPrism and ApiForge)               *)
(***************************************************************************)
\* str.replace(word, "")
Without(text, word) == SelectSeq(text, LAMBDA c : c # word)

\* str.strip(chars)
RECURSIVE StripLeft(_, _)
StripLeft(text, chars) ==
    IF text # <<>> /\ text[1] \in chars THEN StripLeft(Tail(text), chars) ELSE text
RECURSIVE StripRight(_, _)
StripRight(text, chars) ==
    IF text # <<>> /\ text[Len(text)] \in chars
    THEN StripRight(SubSeq(text, 1, Len(text) - 1), chars)
    ELSE text
Strip(text, chars) == StripRight(StripLeft(text, chars), chars)

\* str.split(sep) for a separator of one symbol
RECURSIVE SplitAt(_, _, _)
SplitAt(text, sep, cur) ==
    IF text = <<>> THEN <<cur>>
    ELSE IF text[1] = sep THEN <<cur>> \o SplitAt(Tail(text), sep, <<>>)
    ELSE SplitAt(Tail(text), sep, Append(cur, text[1]))

\* where str.split(sep, 1) cuts
FirstAt(text, sep) ==
    CHOOSE i \in DOMAIN text : text[i] = sep /\ \A j \in 1..(i - 1) : text[j] # sep

\* field types: str, Any, or what get_eq_type made of a type text
StrType == [kind |-> "str", of |-> <<>>]
AnyType == [kind |-> "Any", of |-> <<>>]

\* get_eq_type(type_text) with its default sample and nullability: a name
\* with an array suffix is an ArrayType of its element, any other a scalar
map_type(type_text) ==
    IF type_text # <<>> /\ type_text[Len(type_text)] = "[]"
    THEN [kind |-> "ArrayType", of |-> SubSeq(type_text, 1, Len(type_text) - 1)]
    ELSE [kind |-> "scalar", of |-> type_text]

\* if isinstance(field_type, ArrayType): field_type = List[field_type.item_type]
ListOf(field_type) ==
    IF field_type.kind = "ArrayType" THEN [kind |-> "List", of |-> field_type.of]
    ELSE field_type

\* a variant cutting the column at every blank and keeping two tokens
PrismColumn_two_tokens(column) ==
    IF ~HasWord(column, " ")
    THEN [skip |-> TRUE, name |-> <<>>, type |-> StrType]
    ELSE LET parts == SplitAt(column, " ", <<>>)
         IN [skip |-> FALSE, name |-> parts[1], type |-> ListOf(map_type(parts[2]))]

\* ApiPrism._parse_table_return_type, the loop body (prism.py:504-513)
PrismColumn(column) ==
    IF ~HasWord(column, " ")
    THEN [skip |-> TRUE, name |-> <<>>, type |-> StrType]
    ELSE LET i == FirstAt(column, " ")
         IN [skip |-> FALSE, name |-> SubSeq(column, 1, i - 1),
             type |-> ListOf(map_type(SubSeq(column, i + 1, Len(column))))]

RECURSIVE PrismFields(_, _)
PrismFields(columns, fields) ==
    IF columns = <<>> THEN fields
    ELSE LET c == PrismColumn(Strip(Head(columns), {" "}))
         IN PrismFields(Tail(columns),
                        IF c.skip THEN fields ELSE Put(fields, c.name, c.type))

Result(type) == Put(Empty, <<"result">>, type)

\* ApiPrism._parse_table_return_type (prism.py:487-533): the dict it returns;
\* every exception of its two parsing branches is caught inside
ApiPrism_parse_table_return_type(return_type) ==
    IF return_type = <<>> THEN Result(StrType)
    ELSE IF ~(HasWord(return_type, "TABLE") \/ HasWord(return_type, "SETOF"))
    THEN Result(map_type(return_type))
    ELSE IF HasWord(return_type, "TABLE")
    THEN LET columns_str == Strip(Strip(Without(return_type, "TABLE"), {"(", ")"}), {" "})
         IN IF columns_str = <<>> THEN Result(StrType)
            ELSE LET fields == PrismFields(SplitAt(columns_str, ",", <<>>), Empty)
                 IN IF fields = Empty THEN Result(StrType) ELSE fields
    ELSE LET type_str == Strip(Without(return_type, "SETOF"), {" "})
         IN IF HasWord(type_str, ".") THEN Result(StrType)
            ELSE Result(map_type(type_str))

\* fn_metadata.type in (FunctionType.TABLE, FunctionType.SET_RETURNING)
is_set(fn) == fn.type \in {"TABLE", "SET_RETURNING"}

\* ApiPrism._generate_function_routes, the output fields (prism.py:451-466)
ApiPrism_output_fields(fn) ==
    LET output_fields ==
            IF is_set(fn) \/ HasWord(fn.return_type, "TABLE")
            THEN ApiPrism_parse_table_return_type(fn.return_type)
            ELSE Result(ListOf(map_type(fn.return_type)))
    IN [pc |-> "returned",
        fields |-> IF output_fields = Empty THEN Result(AnyType) ELSE output_fields]

\* ApiForge._parse_table_return_type, the loop body (forge.py:369-376):
\* unpacking column.split(" ", 1) raises ValueError without a blank
ForgeColumn(column) ==
    IF ~HasWord(column, " ")
    THEN [raised |-> TRUE, name |-> <<>>, type |-> StrType]
    ELSE LET i == FirstAt(column, " ")
         IN [raised |-> FALSE, name |-> SubSeq(column, 1, i - 1),
             type |-> ListOf(map_type(SubSeq(column, i + 1, Len(column))))]

RECURSIVE ForgeFields(_, _)
ForgeFields(columns, fields) ==
    IF columns = <<>> THEN [raised |-> FALSE, fields |-> fields]
    ELSE LET c == ForgeColumn(Strip(Head(columns), {" "}))
         IN IF c.raised THEN [raised |-> TRUE, fields |-> fields]
            ELSE ForgeFields(Tail(columns), Put(fields, c.name, c.type))

\* ApiForge._parse_table_return_type (forge.py:347-378)
ApiForge_parse_table_return_type(return_type) ==
    IF HasWord(return_type, "TABLE")
    THEN ForgeFields(SplitAt(Strip(Strip(Without(return_type, "TABLE"), {"(", ")"}), {" "}),
                             ",", <<>>), Empty)
    ELSE [raised |-> FALSE, fields |-> Empty]

\* ApiForge._generate_function_routes, the output fields (forge.py:284-309)
ApiForge_output_fields(fn) ==
    IF is_set(fn) \/ HasWord(fn.return_type, "TABLE")
    THEN LET parsed == ApiForge_parse_table_return_type(fn.return_type)
         IN IF parsed.raised THEN [pc |-> "raised", fields |-> Empty]
            ELSE [pc |-> "returned", fields |-> parsed.fields]
    ELSE [pc |-> "returned", fields |-> Result(ListOf(map_type(fn.return_type)))]

\* the return types a routine may declare: TABLE(...) over a column list,
\* and every short string
ColumnIds == {"id", "name", "x"}
TypeTexts == {<<"int">>, <<"text">>, <<"int", "[]">>, <<"double", " ", "precision">>}
ColumnLists ==
    UNION {{c \in [1..n -> [name : ColumnIds, type : TypeTexts]] :
               \A i, j \in 1..n : i # j => c[i].name # c[j].name} : n \in 1..MaxCols}

RECURSIVE ColumnsText(_)
ColumnsText(cols) ==
    IF cols = <<>> THEN <<>>
    ELSE <<cols[1].name, " ">> \o cols[1].type
         \o (IF Len(cols) > 1 THEN <<",", " ">> \o ColumnsText(Tail(cols)) ELSE <<>>)

TableType(cols) == <<"TABLE", "(">> \o ColumnsText(cols) \o <<")">>

Symbols == {"TABLE", "SETOF", "(", ")", ",", " ", ".", "id", "int"}
ShortTexts == UNION {[1..n -> Symbols] : n \in 0..MaxTypeLen}
NamedTexts == {<<"integer">>, <<"SETOF", " ", "int", "[]">>,
               <<"SETOF", " ", "s1", ".", "t1">>, <<"TABLE", "(", "id", ")">>,
               <<"TABLE", "(", "id", " ", "int", ",", ")">>}

Declarations ==
    {[text |-> TableType(cols), columns |-> cols, wellformed |-> TRUE] : cols \in ColumnLists}
    \cup {[text |-> t, columns |-> <<>>, wellformed |-> FALSE] : t \in ShortTexts \cup NamedTexts}

InitShape ==
    /\ InitAlone
    /\ pg_proc = {} /\ discovery = NoDiscovery
    /\ arguments = <<>> /\ parsing = NoParsing
    /\ declared \in Declarations
    /\ \E returns_set \in BOOLEAN, kind \in {"f", "a"} :
          LET p == [ProcRow(1, "f", <<>>, declared.text, kind, 0)
                       EXCEPT !.returns_set = returns_set]
          IN fn_metadata = RoutineMetadata(p @@ [object_type |-> object_type(p)], 0)
    /\ route = NoRoute
    /\ calls = <<>>
    /\ FilterIdle
    /\ ServeIdle

\* ApiPrism generates the route of the function
PrismGenerateRoute ==
    /\ route.prism.pc = "idle"
    /\ route.prism_parsed.pc = "idle" /\ route.forge_parsed.pc = "idle"
    /\ route' = [route EXCEPT !.prism = ApiPrism_output_fields(fn_metadata)]
    /\ UNCHANGED <<passvars, routinevars, parsevars, filtervars, servevars, declared, fn_metadata, calls>>

\* ApiForge generates the route of the function
ForgeGenerateRoute ==
    /\ route.forge.pc = "idle"
    /\ route.prism_parsed.pc = "idle" /\ route.forge_parsed.pc = "idle"
    /\ route' = [route EXCEPT !.forge = ApiForge_output_fields(fn_metadata)]
    /\ UNCHANGED <<passvars, routinevars, parsevars, filtervars, servevars, declared, fn_metadata, calls>>

\* ApiPrism._parse_table_return_type is applied to the declared text alone
PrismParseReturnType ==
    /\ route.prism_parsed.pc = "idle"
    /\ route.prism.pc = "idle" /\ route.forge.pc = "idle"
    /\ route' = [route EXCEPT !.prism_parsed =
                     [pc |-> "returned",
                      fields |-> ApiPrism_parse_table_return_type(declared.text)]]
    /\ UNCHANGED <<passvars, routinevars, parsevars, filtervars, servevars, declared, fn_metadata, calls>>

\* ApiForge._parse_table_return_type is applied to the declared text alone
ForgeParseReturnType ==
    /\ route.forge_parsed.pc = "idle"
    /\ route.prism.pc = "idle" /\ route.forge.pc = "idle"
    /\ LET parsed == ApiForge_parse_table_return_type(declared.text)
       IN route' = [route EXCEPT !.forge_parsed =
                       [pc |-> IF parsed.raised THEN "raised" ELSE "returned",
                        fields |-> IF parsed.raised THEN Empty ELSE parsed.fields]]
    /\ UNCHANGED <<passvars, routinevars, parsevars, filtervars, servevars, declared, fn_metadata, calls>>

NextShape ==
    \/ PrismGenerateRoute
    \/ ForgeGenerateRoute
    \/ PrismParseReturnType
    \/ ForgeParseReturnType

SpecShape == InitShape /\ [][NextShape]_vars

\* the output fields a column list is to give
ExpectedFields(cols) ==
    [n \in {<<cols[i].name>> : i \in DOMAIN cols} |->
        LET c == CHOOSE c \in Range(cols) : <<c.name>> = n
        IN ListOf(map_type(c.type))]

\* C11: a routine declared TABLE(c1 T1, ..., cn Tn) gets exactly the output
\* fields c1..cn, each typed by the mapping of its Ti, from either generator.
C11_TableTypeFields ==
    declared.wellformed =>
        /\ route.prism.pc # "idle" =>
              /\ route.prism.pc = "returned"
              /\ route.prism.fields = ExpectedFields(declared.columns)
        /\ route.forge.pc # "idle" =>
              /\ route.forge.pc = "returned"
              /\ route.forge.fields = ExpectedFields(declared.columns)

C11_Witness ==
    /\ declared.columns = <<[name |-> "id", type |-> <<"int">>],
                            [name |-> "name", type |-> <<"text">>]>>
    /\ route.prism.pc = "returned" /\ route.forge.pc = "returned"
    /\ DOMAIN route.prism.fields = {<<"id">>, <<"name">>}
    /\ DOMAIN route.forge.fields = {<<"id">>, <<"name">>}

\* the names of the output fields a generator gave the route
FieldNames(generated) == DOMAIN generated.fields

\* C12: a routine classified SCALAR gets exactly the one output field
\* `result`, and an output field of another name exists only for a routine
\* classified TABLE or SET_RETURNING.
C12_ScalarHasOneResult ==
    \A generated \in {route.prism, route.forge} :
        generated.pc = "returned" =>
            /\ fn_metadata.type = "SCALAR" => FieldNames(generated) = {<<"result">>}
            /\ FieldNames(generated) \ {<<"result">>} # {}
                  => fn_metadata.type \in {"TABLE", "SET_RETURNING"}

C12_Witness ==
    /\ fn_metadata.type = "SCALAR"
    /\ fn_metadata.return_type = <<"integer">>
    /\ route.prism.pc = "returned"
    /\ route.prism.fields = Result(map_type(<<"integer">>))

\* an outcome that is a shape of at least one field
Shaped(outcome) == outcome.pc = "returned" /\ outcome.fields # Empty

\* C13: for every return-type string, building the output shape does not
\* raise and gives at least one field, in ApiPrism and in ApiForge, from
\* _parse_table_return_type alone and from the route generator.
C13_ShapeNeverRaises ==
    \A outcome \in {route.prism, route.forge, route.prism_parsed, route.forge_parsed} :
        outcome.pc # "idle" => Shaped(outcome)

(***************************************************************************)
(* Input fields of a function route                                        *)
(***************************************************************************)
\* FunctionParameter(name=..., type=..., mode=...): has_default and
\* default_value keep their class defaults
FunctionParameter(name, type, mode) ==
    [name |-> name, type |-> type, mode |-> mode,
     has_default |-> FALSE, default_value |-> None]

\* the parameters of a FunctionMetadata built by _discover_functions
ParsedParameters(args_str) ==
    [i \in DOMAIN parse_parameters(args_str) |->
        FunctionParameter(parse_parameters(args_str)[i].name,
                          parse_parameters(args_str)[i].type,
                          parse_parameters(args_str)[i].mode)]

Ellipsis == "..."
Optional(field_type) == [kind |-> "Optional", of |-> field_type]

\* input_fields[param.name] = (...) for each parameter in turn
RECURSIVE input_fields(_, _)
input_fields(parameters, fields) ==
    IF parameters = <<>> THEN fields
    ELSE LET param == Head(parameters)
             field_type == ListOf(map_type(param.type))
         IN input_fields(Tail(parameters),
                Put(fields, param.name,
                    [type |-> IF ~param.has_default THEN field_type
                              ELSE Optional(field_type),
                     default |-> IF param.has_default THEN param.default_value
                                 ELSE Ellipsis]))

\* argument texts as pg_get_function_arguments prints them
ArgEntries == {<<"x", " ", "int">>, <<"y", " ", "int", "[]">>, <<"integer">>,
               <<"OUT", " ", "x", " ", "int">>,
               <<"x", " ", "int", " ", "DEFAULT", " ", "0">>}
RECURSIVE JoinArgs(_)
JoinArgs(entries) ==
    IF entries = <<>> THEN <<>>
    ELSE IF Len(entries) = 1 THEN entries[1]
    ELSE entries[1] \o <<",", " ">> \o JoinArgs(Tail(entries))
ArgTexts == {JoinArgs(e) : e \in UNION {[1..n -> ArgEntries] : n \in 0..MaxParams}}

\* parameter lists given to the generator directly, defaults included
GivenParameters ==
    {[name |-> <<n>>, type |-> t, mode |-> "IN",
      has_default |-> FALSE, default_value |-> None] :
        n \in {"x", "y"}, t \in {<<"int">>, <<"int", "[]">>}}
    \cup {[name |-> <<n>>, type |-> t, mode |-> "IN",
           has_default |-> TRUE, default_value |-> d] :
             n \in {"x", "y"}, t \in {<<"int">>, <<"int", "[]">>}, d \in {"0", "now()"}}
ParameterLists ==
    {ParsedParameters(a) : a \in ArgTexts}
    \cup UNION {[1..n -> GivenParameters] : n \in 0..MaxParams}

InitInput ==
    /\ InitAlone
    /\ pg_proc = {} /\ discovery = NoDiscovery
    /\ arguments = <<>> /\ parsing = NoParsing
    /\ declared = Undeclared
    /\ \E parameters \in ParameterLists :
          fn_metadata = [type |-> "SCALAR", return_type |-> <<"void">>,
                         parameters |-> parameters]
    /\ route = NoRoute
    /\ calls = <<>>
    /\ FilterIdle
    /\ ServeIdle

\* ApiPrism._generate_function_routes builds the input model of the routine
GenerateInputModel ==
    /\ route.input.pc = "idle"
    /\ route' = [route EXCEPT !.input =
                    [pc |-> "returned",
                     fields |-> input_fields(fn_metadata.parameters, Empty)]]
    /\ UNCHANGED <<passvars, routinevars, parsevars, filtervars, servevars, declared, fn_metadata, calls>>

NextInput == GenerateInputModel

SpecInput == InitInput /\ [][NextInput]_vars

\* the field a parameter is to get
ExpectedInputField(param) ==
    [type |-> IF param.has_default THEN Optional(ListOf(map_type(param.type)))
              ELSE ListOf(map_type(param.type)),
     default |-> IF param.has_default THEN param.default_value ELSE Ellipsis]

\* C16: the input fields are one per parameter, a parameter with
\* has_default an optional field defaulting to its default text, any other
\* a required field.
C16_OneFieldPerParameter ==
    route.input.pc = "returned" =>
        LET parameters == fn_metadata.parameters
            fields == route.input.fields
        IN /\ Cardinality(DOMAIN fields) = Len(parameters)
           /\ \A i \in DOMAIN parameters :
                 /\ parameters[i].name \in DOMAIN fields
                 /\ fields[parameters[i].name] = ExpectedInputField(parameters[i])

(***************************************************************************)
(* Invocation of a generated route                                         *)
(***************************************************************************)
\* params.model_fields.keys(): the names of the input fields in the order
\* the dict got them
RECURSIVE FieldKeys(_, _)
FieldKeys(parameters, keys) ==
    IF parameters = <<>> THEN keys
    ELSE FieldKeys(Tail(parameters),
                   IF \E i \in DOMAIN keys : keys[i] = Head(parameters).name
                   THEN keys ELSE Append(keys, Head(parameters).name))

\* ', '.join(items)
RECURSIVE JoinComma(_)
JoinComma(items) ==
    IF items = <<>> THEN <<>>
    ELSE IF Len(items) = 1 THEN items[1]
    ELSE items[1] \o <<", ">> \o JoinComma(Tail(items))

\* a variant writing the values of the parameters into the statement
query_with_values(prefix, schema, fn_name, keys, params) ==
    <<prefix, schema, ".", fn_name, "(">>
    \o JoinComma([i \in DOMAIN keys |-> <<params[keys[i]]>>]) \o <<")">>

\* query = f"SELECT * FROM {schema}.{fn_name}({', '.join(param_list)})" with
\* param_list = [f":{p}" for p in params.model_fields.keys()]
query(prefix, schema, fn_name, keys, params) ==
    <<prefix, schema, ".", fn_name, "(">>
    \o JoinComma([i \in DOMAIN keys |-> <<":">> \o keys[i]]) \o <<")">>

\* OutputModel.model_validate(data): pydantic is taken to accept the data
\* and to keep it
model_validate(data) == [validated |-> data]

Single(record) == [pc |-> "returned", list |-> FALSE, records |-> <<record>>]
ListOfRecords(records) == [pc |-> "returned", list |-> TRUE, records |-> records]
Raised == [pc |-> "raised", list |-> FALSE, records |-> <<>>]

\* dict(r._mapping) of row r of a result
Mapping(result, r) == [c \in Range(result.columns) |-> result.rows[r][c]]

\* a variant that answers with a list only for a set-returning routine
prism_response_by_is_set(fn, output_names, result) ==
    IF fn.type = "SCALAR"
    THEN IF result.rows = <<>> THEN Single(model_validate(Result(None)))
         ELSE IF Len(result.columns) = 1
         THEN Single(model_validate(Result(result.rows[1][result.columns[1]])))
         ELSE Single(model_validate(Mapping(result, 1)))
    ELSE IF result.rows = <<>>
         THEN IF is_set(fn) THEN ListOfRecords(<<>>)
              ELSE Single(model_validate([f \in output_names |-> None]))
         ELSE IF is_set(fn)
         THEN ListOfRecords([r \in DOMAIN result.rows |-> model_validate(Mapping(result, r))])
         ELSE Single(model_validate(Mapping(result, 1)))

\* ApiPrism execute_function after db.execute (prism.py:366-393); an
\* exception would leave as HTTP 500 (prism.py:394-401)
prism_response(fn, output_names, result) ==
    IF fn.type = "SCALAR"
    THEN IF result.rows = <<>> THEN Single(model_validate(Result(None)))
         ELSE IF Len(result.columns) = 1
         THEN Single(model_validate(Result(result.rows[1][result.columns[1]])))
         ELSE Single(model_validate(Mapping(result, 1)))
    ELSE IF result.rows = <<>>
         THEN IF is_set(fn) THEN ListOfRecords(<<>>)
              ELSE Single(model_validate([f \in output_names |-> None]))
         ELSE IF Len(result.rows) > 1 \/ is_set(fn)
         THEN ListOfRecords([r \in DOMAIN result.rows |-> model_validate(Mapping(result, r))])
         ELSE Single(model_validate(Mapping(result, 1)))

\* ApiForge execute_function after db.execute (forge.py:331-345):
\* fetchone() gives None for an empty result and record._mapping raises
forge_response(fn, output_names, result) ==
    IF is_set(fn)
    THEN ListOfRecords([r \in DOMAIN result.rows |-> model_validate(Mapping(result, r))])
    ELSE IF result.rows = <<>> THEN Raised
    ELSE IF fn.type = "SCALAR"
    THEN Single(model_validate(Result(result.rows[1][result.columns[1]])))
    ELSE Single(model_validate(Mapping(result, 1)))

\* the routines a route is generated for
R_t == [ProcRow(4, "t", <<"x", " ", "int", ",", " ", "y", " ", "int">>,
                TableType(<<[name |-> "id", type |-> <<"int">>],
                            [name |-> "name", type |-> <<"text">>]>>), "f", 0)
           EXCEPT !.returns_set = TRUE]
R_a == ProcRow(5, "a", <<"x", " ", "int">>, <<"integer">>, "a", 0)
InvokedRoutines ==
    {[RoutineMetadata(p @@ [object_type |-> object_type(p)], 0)
         EXCEPT !.parameters = ParsedParameters(p.arguments)] : p \in {R_f, R_t, R_a, R_p}}

\* what the database answers: rows of one column or of the columns id, name
CellValue(r) == IF r = 1 THEN "v1" ELSE IF r = 2 THEN "v2" ELSE "v3"
ResultSets ==
    {[columns |-> columns,
      rows |-> [r \in 1..n |-> [c \in Range(columns) |-> CellValue(r)]]] :
        columns \in {<<<<"f">>>>, <<<<"id">>, <<"name">>>>}, n \in 0..MaxRows}
ArgumentValues == {"1", "2"}

InitInvoke ==
    /\ InitAlone
    /\ pg_proc = {} /\ discovery = NoDiscovery
    /\ arguments = <<>> /\ parsing = NoParsing
    /\ declared = Undeclared
    /\ fn_metadata \in InvokedRoutines
    /\ route = [NoRoute EXCEPT
                  !.prism = ApiPrism_output_fields(fn_metadata),
                  !.forge = ApiForge_output_fields(fn_metadata),
                  !.input = [pc |-> "returned",
                             fields |-> input_fields(fn_metadata.parameters, Empty)]]
    /\ calls = <<>>
    /\ FilterIdle
    /\ ServeIdle

Call(handler, params, statement, result, response) ==
    [handler |-> handler, params |-> params, statement |-> statement,
     bound |-> params, result |-> result, response |-> response]

\* ApiPrism: execute_procedure serves one request
PrismExecuteProcedure ==
    /\ fn_metadata.object_type = "procedure"
    /\ Len(calls) < MaxCalls
    /\ \E params \in [DOMAIN route.input.fields -> ArgumentValues] :
          calls' = Append(calls,
              Call("execute_procedure", params,
                   query("CALL ", fn_metadata.schema, fn_metadata.name,
                         FieldKeys(fn_metadata.parameters, <<>>), params),
                   [columns |-> <<>>, rows |-> <<>>],
                   [pc |-> "returned", list |-> FALSE, records |-> <<>>]))
    /\ UNCHANGED <<passvars, routinevars, parsevars, filtervars, servevars, declared, fn_metadata, route>>

\* ApiPrism: execute_function serves one request
PrismExecuteFunction ==
    /\ fn_metadata.object_type = "function"
    /\ Len(calls) < MaxCalls
    /\ \E params \in [DOMAIN route.input.fields -> ArgumentValues], result \in ResultSets :
          calls' = Append(calls,
              Call("prism.execute_function", params,
                   query("SELECT * FROM ", fn_metadata.schema, fn_metadata.name,
                         FieldKeys(fn_metadata.parameters, <<>>), params),
                   result,
                   prism_response(fn_metadata, DOMAIN route.prism.fields, result)))
    /\ UNCHANGED <<passvars, routinevars, parsevars, filtervars, servevars, declared, fn_metadata, route>>

\* ApiForge: execute_function serves one request
ForgeExecuteFunction ==
    /\ fn_metadata.object_type = "function"
    /\ Len(calls) < MaxCalls
    /\ \E params \in [DOMAIN route.input.fields -> ArgumentValues], result \in ResultSets :
          calls' = Append(calls,
              Call("forge.execute_function", params,
                   query("SELECT * FROM ", fn_metadata.schema, fn_metadata.name,
                         FieldKeys(fn_metadata.parameters, <<>>), params),
                   result,
                   forge_response(fn_metadata, DOMAIN route.forge.fields, result)))
    /\ UNCHANGED <<passvars, routinevars, parsevars, filtervars, servevars, declared, fn_metadata, route>>

NextInvoke == PrismExecuteProcedure \/ PrismExecuteFunction \/ ForgeExecuteFunction

SpecInvoke == InitInvoke /\ [][NextInvoke]_vars

\* the calls a function handler served
FunctionCalls ==
    {i \in DOMAIN calls :
        calls[i].handler \in {"prism.execute_function", "forge.execute_function"}}

OutputNames(call) ==
    IF call.handler = "prism.execute_function" THEN DOMAIN route.prism.fields
    ELSE DOMAIN route.forge.fields

\* C14: an invocation that returns zero rows answers the empty list when the
\* routine is set-returning, and otherwise one record with every output
\* field null.
C14_ZeroRows ==
    \A i \in FunctionCalls :
        calls[i].result.rows = <<>> =>
            IF is_set(fn_metadata)
            THEN calls[i].response = ListOfRecords(<<>>)
            ELSE /\ calls[i].response.pc = "returned"
                 /\ ~calls[i].response.list
                 /\ Len(calls[i].response.records) = 1
                 /\ calls[i].response.records[1].validated
                       = [f \in OutputNames(calls[i]) |-> None]

\* C15: an invocation that returns more than one row, or that is of a
\* set-returning routine, answers a list of one record per returned row,
\* whatever the type of the routine.
C15_ManyRowsGiveList ==
    \A i \in FunctionCalls :
        (/\ calls[i].handler = "prism.execute_function"
         /\ (Len(calls[i].result.rows) > 1 \/ is_set(fn_metadata))) =>
            calls[i].response =
                ListOfRecords([r \in DOMAIN calls[i].result.rows |->
                                  model_validate(Mapping(calls[i].result, r))])

\* C15 as the code has it: a routine not classified SCALAR answers a list of
\* one record per row when more than one row returns or it is set-returning;
\* a routine classified SCALAR answers one record, made of the first row.
C15_ManyRowsGiveListUnlessScalar ==
    \A i \in FunctionCalls :
        calls[i].handler = "prism.execute_function" =>
            /\ (/\ fn_metadata.type # "SCALAR"
                /\ (Len(calls[i].result.rows) > 1 \/ is_set(fn_metadata))) =>
                   calls[i].response =
                       ListOfRecords([r \in DOMAIN calls[i].result.rows |->
                                         model_validate(Mapping(calls[i].result, r))])
            /\ (fn_metadata.type = "SCALAR" /\ calls[i].result.rows # <<>>) =>
                   /\ ~calls[i].response.list
                   /\ Len(calls[i].response.records) = 1
                   /\ \A f \in DOMAIN calls[i].response.records[1].validated :
                         calls[i].response.records[1].validated[f] = CellValue(1)

C15_Witness ==
    \E i \in FunctionCalls :
        /\ calls[i].handler = "prism.execute_function"
        /\ fn_metadata.type = "AGGREGATE"
        /\ Len(calls[i].result.rows) = 2
        /\ calls[i].response.list
        /\ Len(calls[i].response.records) = 2

\* C17: the statement a handler executes is fixed by the schema, the name
\* and the input field names: two invocations of the routine execute the
\* same text whatever their argument values, no value occurs in the text,
\* and the values go to the database as bound parameters.
C17_StatementIgnoresValues ==
    /\ \A i, j \in DOMAIN calls :
          calls[i].handler = calls[j].handler => calls[i].statement = calls[j].statement
    /\ \A i \in DOMAIN calls :
          /\ calls[i].bound = calls[i].params
          /\ \A v \in ArgumentValues : ~HasWord(calls[i].statement, v)

C17_Witness ==
    \E i, j \in DOMAIN calls :
        /\ calls[i].handler = "prism.execute_function"
        /\ calls[j].handler = "prism.execute_function"
        /\ DOMAIN calls[i].params = {<<"x">>, <<"y">>}
        /\ calls[i].params[<<"x">>] # calls[j].params[<<"x">>]
        /\ calls[i].statement = calls[j].statement
        /\ calls[i].statement = <<"SELECT * FROM ", "s1", ".", "t", "(",
                                   ":", "x", ", ", ":", "y", ")">>

(***************************************************************************)
(* Translation of the query parameters of a list request                   *)
(***************************************************************************)
\* the columns of the entity, and the keys of a request
Columns == {"status", "created_at"}
standard_params == {"limit", "offset", "order_by", "order_dir"}

\* the requests: a mapping of the keys that are set to their values
TextParameters ==
    {f \in UNION {[keys -> {"active", "x", "created_at", "unknown_field", "asc", "desc"}] :
                     keys \in SUBSET {"status", "unknown_field", "order_by", "order_dir"}} :
        /\ "status" \in DOMAIN f => f["status"] = "active"
        /\ "unknown_field" \in DOMAIN f => f["unknown_field"] = "x"
        /\ "order_by" \in DOMAIN f => f["order_by"] \in {"created_at", "unknown_field"}
        /\ "order_dir" \in DOMAIN f => f["order_dir"] \in {"asc", "desc"}}
NumberParameters ==
    UNION {[keys -> {-1, 0, 10}] : keys \in SUBSET {"limit", "offset"}}
Requests == {t @@ n : t \in TextParameters, n \in NumberParameters}

\* what a translation made of the request
NotApplied == [applied |-> FALSE, value |-> 0]
Applied(n) == [applied |-> TRUE, value |-> n]
NoOrder == [applied |-> FALSE, column |-> "", direction |-> ""]
Order(column, dir) == [applied |-> TRUE, column |-> column, direction |-> dir]
Query(predicates, limit, offset, order) ==
    [pc |-> "returned", predicates |-> predicates,
     limit |-> limit, offset |-> offset, order |-> order]

\* filters.<key> is None: the key is not set
IsNone(f, key) == key \notin DOMAIN f

\* CrudOps._extract_filter_params without the exclusion of the standard
\* query params
filter_dict_all_keys(f) == DOMAIN f

\* the filter dict of CrudOps._extract_filter_params and the one of
\* ViewOps._build_sql_query: the set keys that are no standard parameter
filter_dict(f) == DOMAIN f \ standard_params

Equals(f, key) == [column |-> key, op |-> "eq", value |-> f[key]]

\* order_column.desc() if filters.order_dir == "desc" else order_column
direction(f) ==
    IF ~IsNone(f, "order_dir") /\ f["order_dir"] = "desc" THEN "desc" ELSE "asc"

\* QueryBuilder.build: the initial query, as it is
QueryBuilder_build(f) == Query({}, NotApplied, NotApplied, NoOrder)

\* CrudOps.read.read_resources with _build_filtered_query: `if filters.limit:`
\* is false for None and for 0; getattr(model, name, None) is None for a
\* name that is no column
read_resources(f) ==
    Query({Equals(f, key) : key \in filter_dict(f) \cap Columns},
          IF ~IsNone(f, "limit") /\ f["limit"] # 0 THEN Applied(f["limit"]) ELSE NotApplied,
          IF ~IsNone(f, "offset") /\ f["offset"] # 0 THEN Applied(f["offset"]) ELSE NotApplied,
          IF ~IsNone(f, "order_by") /\ f["order_by"] \in Columns
          THEN Order(f["order_by"], direction(f)) ELSE NoOrder)

\* ViewOps._build_sql_query: the clauses of the statement in the order in
\* which query_parts.append receives them, joined by " ".join(query_parts)
query_parts(f) ==
    <<"SELECT">>
    \o (IF filter_dict(f) \cap Columns # {} THEN <<"WHERE">> ELSE <<>>)
    \o (IF ~IsNone(f, "limit") THEN <<"LIMIT">> ELSE <<>>)
    \o (IF ~IsNone(f, "offset") THEN <<"OFFSET">> ELSE <<>>)
    \o (IF ~IsNone(f, "order_by") THEN <<"ORDER BY">> ELSE <<>>)

\* ViewOps._build_sql_query
_build_sql_query(f) ==
    Query({Equals(f, key) : key \in filter_dict(f) \cap Columns},
          IF ~IsNone(f, "limit") THEN Applied(f["limit"]) ELSE NotApplied,
          IF ~IsNone(f, "offset") THEN Applied(f["offset"]) ELSE NotApplied,
          IF ~IsNone(f, "order_by") THEN Order(f["order_by"], direction(f)) ELSE NoOrder)
    @@ [query_parts |-> query_parts(f)]

InitFilter ==
    /\ InitAlone
    /\ pg_proc = {} /\ discovery = NoDiscovery
    /\ arguments = <<>> /\ parsing = NoParsing
    /\ PlannerIdle
    /\ filters \in Requests
    /\ plan = NoPlan
    /\ ServeIdle

\* prism: QueryBuilder(model, params).build(initial_query)
Build ==
    /\ plan.build.pc = "idle"
    /\ plan' = [plan EXCEPT !.build = QueryBuilder_build(filters)]
    /\ UNCHANGED <<passvars, routinevars, parsevars, plannervars, servevars, filters>>

\* forge: the read route of a table
ReadResources ==
    /\ plan.read_resources.pc = "idle"
    /\ plan' = [plan EXCEPT !.read_resources = read_resources(filters)]
    /\ UNCHANGED <<passvars, routinevars, parsevars, plannervars, servevars, filters>>

\* forge: the route of a view
BuildSqlQuery ==
    /\ plan._build_sql_query.pc = "idle"
    /\ plan' = [plan EXCEPT !._build_sql_query = _build_sql_query(filters)]
    /\ UNCHANGED <<passvars, routinevars, parsevars, plannervars, servevars, filters>>

NextFilter == Build \/ ReadResources \/ BuildSqlQuery

SpecFilter == InitFilter /\ [][NextFilter]_vars

\* the translations that have run
Translated(names) == {plan[n] : n \in {m \in names : plan[m].pc = "returned"}}

\* C18: every translation applies an equality predicate for exactly the set
\* keys that are no reserved key and name a column of the entity.
C18_PredicatesForRealColumns ==
    \A q \in Translated({"build", "read_resources", "_build_sql_query"}) :
        q.predicates = {Equals(filters, key) :
                           key \in (DOMAIN filters \ standard_params) \cap Columns}

\* C19: an ordering is applied exactly when order_by names a column of the
\* entity, on that column, descending when order_dir is desc and ascending
\* otherwise.
C19_OrderOnlyByRealColumn ==
    \A q \in Translated({"read_resources", "_build_sql_query"}) :
        /\ q.order.applied <=>
              ("order_by" \in DOMAIN filters /\ filters["order_by"] \in Columns)
        /\ q.order.applied =>
              /\ q.order.column = filters["order_by"]
              /\ q.order.direction = "desc" <=>
                    ("order_dir" \in DOMAIN filters /\ filters["order_dir"] = "desc")
              /\ q.order.direction \in {"asc", "desc"}

\* C20: a limit, and an offset, is applied exactly when its key is set and
\* its value is not negative, with that value.
C20_LimitOffsetWhenNonNegative ==
    \A q \in Translated({"read_resources", "_build_sql_query"}) :
        /\ q.limit.applied <=> ("limit" \in DOMAIN filters /\ filters["limit"] >= 0)
        /\ q.limit.applied => q.limit.value = filters["limit"]
        /\ q.offset.applied <=> ("offset" \in DOMAIN filters /\ filters["offset"] >= 0)
        /\ q.offset.applied => q.offset.value = filters["offset"]

\* C29: the statement of a view places its clauses in the order SELECT,
\* WHERE, ORDER BY, LIMIT, OFFSET: an ORDER BY clause never follows a LIMIT
\* or an OFFSET clause.
C29_OrderByBeforePagination ==
    plan._build_sql_query.pc = "returned" =>
        \A i, j \in DOMAIN plan._build_sql_query.query_parts :
            (/\ plan._build_sql_query.query_parts[i] \in {"LIMIT", "OFFSET"}
             /\ plan._build_sql_query.query_parts[j] = "ORDER BY") => j < i

(***************************************************************************)
(* Column metadata of a reflected table                                    *)
(***************************************************************************)
\* a foreign key reference, or none
NoReference == [some |-> FALSE]
ColumnReference(schema, table, column) ==
    [some |-> TRUE, schema |-> schema, table |-> table, column |-> column]

\* the tables of the database: columns of distinct names, each of a plain
\* or an enumerated type, in the primary key or not, with a foreign key to
\* a column of another table or without one
ReflectedColumns ==
    [name : ColumnIds, type : {"INTEGER", "ENUM"}, primary_key : BOOLEAN,
     foreign_key : {NoReference, ColumnReference("s1", "t2", "id")}]
ReflectedTables ==
    {[name |-> "t1", schema |-> "s1", columns |-> c] :
        c \in UNION {{c \in [1..n -> ReflectedColumns] :
                         \A i, j \in 1..n : i # j => c[i].name # c[j].name} :
                     n \in 1..MaxCols}}

\* the columns of a table with a foreign key, in the order of the table
RECURSIVE ForeignKeyColumns(_)
ForeignKeyColumns(columns) ==
    IF columns = <<>> THEN <<>>
    ELSE (IF Head(columns).foreign_key.some THEN <<Head(columns)>> ELSE <<>>)
         \o ForeignKeyColumns(Tail(columns))

\* the SQLAlchemy inspector of a PostgreSQL engine: get_columns gives one
\* dict per column, with the keys name, type and nullable (and default,
\* autoincrement, comment) and no key primary_key; get_foreign_keys one
\* item per foreign key; get_pk_constraint the constrained columns
inspector(table) ==
    [get_columns |->
        [i \in DOMAIN table.columns |->
            [name |-> table.columns[i].name, type |-> table.columns[i].type,
             nullable |-> ~table.columns[i].primary_key]],
     get_foreign_keys |->
        [i \in DOMAIN ForeignKeyColumns(table.columns) |->
            LET c == ForeignKeyColumns(table.columns)[i]
            IN [constrained_columns |-> <<c.name>>,
                referred_schema |-> c.foreign_key.schema,
                referred_table |-> c.foreign_key.table,
                referred_columns |-> <<c.foreign_key.column>>]],
     get_pk_constraint |->
        [constrained_columns |->
            LET pk == SelectSeq(table.columns, LAMBDA c : c.primary_key)
            IN [i \in DOMAIN pk |-> pk[i].name]]]

\* the Column objects of the reflected sqlalchemy Table
TableColumns(table) ==
    [i \in DOMAIN table.columns |->
        [name |-> table.columns[i].name, type |-> table.columns[i].type,
         enums |-> IF table.columns[i].type = "ENUM" THEN <<"x", "y">> ELSE <<>>,
         has_enums |-> table.columns[i].type = "ENUM",
         nullable |-> ~table.columns[i].primary_key,
         primary_key |-> table.columns[i].primary_key,
         foreign_keys |-> IF table.columns[i].foreign_key.some
                          THEN {table.columns[i].foreign_key} ELSE {}]]

\* PostgresIntrospector._get_columns: fk_map is keyed by the first
\* constrained column, is_primary_key is col.get('primary_key', False)
_get_columns(insp) ==
    LET fks == insp.get_foreign_keys
        InFkMap(name) == \E i \in DOMAIN fks : fks[i].constrained_columns[1] = name
        fk_info(name) ==
            fks[CHOOSE i \in DOMAIN fks :
                   /\ fks[i].constrained_columns[1] = name
                   /\ \A j \in DOMAIN fks :
                         fks[j].constrained_columns[1] = name => j <= i]
    IN [i \in DOMAIN insp.get_columns |->
          LET col == insp.get_columns[i]
          IN [name |-> col.name,
              sql_type |-> col.type,
              is_nullable |-> col.nullable,
              is_primary_key |-> IF "primary_key" \in DOMAIN col
                                 THEN col["primary_key"] ELSE FALSE,
              foreign_key |->
                  IF InFkMap(col.name)
                  THEN ColumnReference(fk_info(col.name).referred_schema,
                                       fk_info(col.name).referred_table,
                                       fk_info(col.name).referred_columns[1])
                  ELSE NoReference]]

\* PostgresIntrospector.get_tables, the TableMetadata of one table
get_tables(table) ==
    [name |-> table.name, schema |-> table.schema,
     columns |-> _get_columns(inspector(table)),
     primary_key_columns |-> inspector(table).get_pk_constraint.constrained_columns,
     is_view |-> FALSE]

\* a variant that reports no enumerated type for a column with a reference
build_column_metadata_reference_first(column) ==
    [name |-> column.name, type |-> column.type, nullable |-> column.nullable,
     is_primary_key |-> IF column.primary_key THEN "True" ELSE None,
     is_enum |-> IF column.has_enums /\ column.foreign_keys = {} THEN "True" ELSE None,
     references |-> IF column.foreign_keys # {}
                    THEN CHOOSE fk \in column.foreign_keys : TRUE ELSE NoReference]

\* build_column_metadata of forge.api.metadata
build_column_metadata(column) ==
    [name |-> column.name, type |-> column.type, nullable |-> column.nullable,
     is_primary_key |-> IF column.primary_key THEN "True" ELSE None,
     is_enum |-> IF column.has_enums THEN "True" ELSE None,
     references |-> IF column.foreign_keys # {}
                    THEN CHOOSE fk \in column.foreign_keys : TRUE ELSE NoReference]

InitIntrospect ==
    /\ InitAlone
    /\ pg_proc = {} /\ discovery = NoDiscovery
    /\ arguments = <<>> /\ parsing = NoParsing
    /\ PlannerIdle
    /\ FilterIdle
    /\ \E table \in ReflectedTables : request = [pc |-> "reflected", table |-> table]
    /\ reply = [get_tables |-> NoReply, build_column_metadata |-> NoReply]

\* prism: the introspector describes the table
GetTables ==
    /\ reply.get_tables.pc = "idle"
    /\ reply' = [reply EXCEPT !.get_tables =
                    [pc |-> "returned", table |-> get_tables(request.table)]]
    /\ UNCHANGED <<passvars, routinevars, parsevars, plannervars, filtervars, request>>

\* forge: the metadata routes describe every column of the table
BuildColumnMetadata ==
    /\ reply.build_column_metadata.pc = "idle"
    /\ reply' = [reply EXCEPT !.build_column_metadata =
                    [pc |-> "returned",
                     columns |-> [i \in DOMAIN request.table.columns |->
                        build_column_metadata(TableColumns(request.table)[i])]]]
    /\ UNCHANGED <<passvars, routinevars, parsevars, plannervars, filtervars, request>>

NextIntrospect == GetTables \/ BuildColumnMetadata

SpecIntrospect == InitIntrospect /\ [][NextIntrospect]_vars

\* C21: a column with a primary-key constraint and a foreign-key constraint
\* is described with the primary-key flag true and the reference to the
\* schema, table and column it points to, by prism and by forge.
C21_PrimaryKeyAndReference ==
    \A i \in DOMAIN request.table.columns :
        LET c == request.table.columns[i]
        IN (c.primary_key /\ c.foreign_key.some) =>
             /\ reply.get_tables.pc = "returned" =>
                   /\ reply.get_tables.table.columns[i].is_primary_key
                   /\ reply.get_tables.table.columns[i].foreign_key = c.foreign_key
             /\ reply.build_column_metadata.pc = "returned" =>
                   /\ reply.build_column_metadata.columns[i].is_primary_key = "True"
                   /\ reply.build_column_metadata.columns[i].references = c.foreign_key

\* C22: a column that carries a foreign key reference is never flagged as an
\* enumerated type, even if its type is one.
C22_ReferenceNeverEnum ==
    reply.build_column_metadata.pc = "returned" =>
        \A i \in DOMAIN reply.build_column_metadata.columns :
            reply.build_column_metadata.columns[i].references.some =>
                reply.build_column_metadata.columns[i].is_enum # "True"

\* C22 as the code has it: the enumerated-type flag and the reference are
\* independent: the flag is set exactly for a column of an enumerated type,
\* the reference exactly for a column with a foreign key.
C22_EnumAndReferenceIndependent ==
    reply.build_column_metadata.pc = "returned" =>
        \A i \in DOMAIN request.table.columns :
            /\ reply.build_column_metadata.columns[i].is_enum = "True"
                  <=> request.table.columns[i].type = "ENUM"
            /\ reply.build_column_metadata.columns[i].references.some
                  <=> request.table.columns[i].foreign_key.some

C22_Witness ==
    /\ reply.build_column_metadata.pc = "returned"
    /\ \E i \in DOMAIN request.table.columns :
          /\ request.table.columns[i].type = "ENUM"
          /\ request.table.columns[i].foreign_key.some
          /\ reply.build_column_metadata.columns[i].is_enum = "True"
          /\ reply.build_column_metadata.columns[i].references
                = ColumnReference("s1", "t2", "id")

\* C30: in the TableMetadata of get_tables a column has is_primary_key true
\* exactly when its name is in primary_key_columns.
C30_PrimaryKeyFlagMatchesColumns ==
    reply.get_tables.pc = "returned" =>
        \A i \in DOMAIN reply.get_tables.table.columns :
            reply.get_tables.table.columns[i].is_primary_key
               <=> \E j \in DOMAIN reply.get_tables.table.primary_key_columns :
                      reply.get_tables.table.primary_key_columns[j]
                         = reply.get_tables.table.columns[i].name

(***************************************************************************)
(* Update and delete of the records that match the filters                 *)
(***************************************************************************)
\* the records of the table, and the requests: the query params model has
\* one optional field per column of the table and the four standard params
Records == [status : {"active", "inactive"}, created_at : {"d1", "d2"}]
Tables == UNION {[1..n -> Records] : n \in 0..MaxRows}
MutationRequests ==
    {t @@ n : t \in {f \in UNION {[keys -> {"active", "d1", "created_at"}] :
                                     keys \in SUBSET {"status", "created_at", "order_by"}} :
                        /\ "status" \in DOMAIN f => f["status"] = "active"
                        /\ "created_at" \in DOMAIN f => f["created_at"] = "d1"
                        /\ "order_by" \in DOMAIN f => f["order_by"] = "created_at"},
              n \in UNION {[keys -> {10}] : keys \in SUBSET {"limit"}}}
\* resource.model_dump(exclude_unset=True)
Resources == {[status |-> "inactive"], [status |-> "active", created_at |-> "d2"]}

\* _build_filtered_query that applies no condition
_build_filtered_query_unfiltered(f) == {}

\* CrudOps._build_filtered_query: one `column == value` condition per key of
\* the filter dict that is an attribute of the model
_build_filtered_query(f) == {Equals(f, key) : key \in filter_dict(f) \cap Columns}

\* query.all(): the positions of the records that satisfy every condition
all(rows, conditions) ==
    {i \in DOMAIN rows : \A c \in conditions : rows[i][c.column] = c.value}

\* query.update(update_data)
update(rows, conditions, update_data) ==
    [i \in DOMAIN rows |->
        IF i \in all(rows, conditions)
        THEN [k \in DOMAIN rows[i] |->
                 IF k \in DOMAIN update_data THEN update_data[k] ELSE rows[i][k]]
        ELSE rows[i]]

\* query.delete(synchronize_session=False)
delete(rows, conditions) ==
    SelectSeq(rows, LAMBDA r : \E c \in conditions : r[c.column] # c.value)

HTTPException(status_code, detail, session, conditions, rows) ==
    [pc |-> "returned", status |-> status_code, detail |-> detail,
     session |-> session, conditions |-> conditions, rows |-> rows]
Response(message, session, conditions, rows) ==
    [pc |-> "returned", status |-> 200, detail |-> message,
     session |-> session, conditions |-> conditions, rows |-> rows]

\* CrudOps.update.update_resource; fails: the database raises at the update
update_resource(f, update_data, rows, fails) ==
    IF filter_dict(f) = {}
    THEN HTTPException(400, <<"No filters provided">>, <<>>, {}, rows)
    ELSE LET filtered == _build_filtered_query(f)
         IN  IF all(rows, filtered) = {}
             THEN HTTPException(400, <<"Update failed: ", "404", "No matching resources found">>,
                                <<"all", "rollback">>, filtered, rows)
             ELSE IF fails
             THEN HTTPException(400, <<"Update failed: ", "error">>,
                                <<"all", "update", "rollback">>, filtered, rows)
             ELSE Response(<<"updated_count">>, <<"all", "update", "commit", "all">>,
                           filtered, update(rows, filtered, update_data))

\* CrudOps.delete.delete_resource; fails: the database raises at the delete
delete_resource(f, rows, fails) ==
    IF filter_dict(f) = {}
    THEN HTTPException(400, <<"No filters provided">>, <<>>, {}, rows)
    ELSE LET filtered == _build_filtered_query(f)
         IN  IF all(rows, filtered) = {}
             THEN Response(<<"No resources found matching the criteria">>,
                           <<"all">>, filtered, rows)
             ELSE IF fails
             THEN HTTPException(400, <<"Deletion failed: ", "error">>,
                                <<"all", "delete", "rollback">>, filtered, rows)
             ELSE Response(<<"resource(s) deleted successfully">>,
                           <<"all", "delete", "commit">>,
                           filtered, delete(rows, filtered))

InitMutate ==
    /\ InitAlone
    /\ pg_proc = {} /\ discovery = NoDiscovery
    /\ arguments = <<>> /\ parsing = NoParsing
    /\ PlannerIdle
    /\ filters \in MutationRequests
    /\ plan = NoPlan
    /\ \E rows \in Tables, resource \in Resources :
          request = [pc |-> "received", rows |-> rows, resource |-> resource]
    /\ reply = [update_resource |-> NoReply, delete_resource |-> NoReply]

\* PUT /{table}: the route of update_resource, on the table as it is
UpdateResource ==
    /\ request.pc = "received"
    /\ reply.update_resource.pc = "idle"
    /\ \E fails \in BOOLEAN :
          LET r == update_resource(filters, request.resource, request.rows, fails)
          IN  /\ reply' = [reply EXCEPT !.update_resource =
                              r @@ [before |-> request.rows]]
              /\ request' = [request EXCEPT !.rows = r.rows]
    /\ UNCHANGED <<passvars, routinevars, parsevars, plannervars, filtervars>>

\* DELETE /{table}: the route of delete_resource, on the table as it is
DeleteResource ==
    /\ request.pc = "received"
    /\ reply.delete_resource.pc = "idle"
    /\ \E fails \in BOOLEAN :
          LET r == delete_resource(filters, request.rows, fails)
          IN  /\ reply' = [reply EXCEPT !.delete_resource =
                              r @@ [before |-> request.rows]]
              /\ request' = [request EXCEPT !.rows = r.rows]
    /\ UNCHANGED <<passvars, routinevars, parsevars, plannervars, filtervars>>

NextMutate == UpdateResource \/ DeleteResource

SpecMutate == InitMutate /\ [][NextMutate]_vars

\* the handlers that have answered
Answered == {reply[h] : h \in {m \in {"update_resource", "delete_resource"} :
                                  reply[m].pc = "returned"}}

\* C26: an update or delete request with no set key other than limit,
\* offset, order_by and order_dir is rejected with status 400 "No filters
\* provided" before any query runs: nothing is read, changed, deleted or
\* committed.
C26_NoFilterIsRejected ==
    (DOMAIN filters \ {"limit", "offset", "order_by", "order_dir"} = {}) =>
        \A r \in Answered :
            /\ r.status = 400
            /\ r.detail = <<"No filters provided">>
            /\ r.session = <<>>
            /\ r.rows = r.before

C26_Witness ==
    /\ DOMAIN filters = {"limit", "order_by"}
    /\ request.rows # <<>>
    /\ reply.update_resource.pc = "returned"
    /\ reply.delete_resource.pc = "returned"
    /\ reply.update_resource.status = 400
    /\ reply.delete_resource.detail = <<"No filters provided">>

\* C27: an update request whose filters match no record is answered with
\* status 404 "No matching resources found", and no update is performed.
C27_NoMatchIsNotFound ==
    (/\ reply.update_resource.pc = "returned"
     /\ DOMAIN filters \ standard_params # {}
     /\ \A i \in DOMAIN reply.update_resource.before :
           \E k \in DOMAIN filters \ standard_params :
              reply.update_resource.before[i][k] # filters[k]) =>
        /\ reply.update_resource.status = 404
        /\ reply.update_resource.detail = <<"No matching resources found">>
        /\ reply.update_resource.rows = reply.update_resource.before

DataColumns ==
    {Col(n, t, nullable, FALSE, <<>>) :
        n \in {"data"}, t \in {"JSON", "JSONB", "TEXT[]", "INTEGER"}, nullable \in BOOLEAN}
ExtraColumns ==
    {Col(n, t, nullable, FALSE, <<>>) :
        n \in {"name"}, t \in {"JSON", "JSONB", "TEXT[]", "INTEGER"}, nullable \in BOOLEAN}
SampledRelations ==
    {[name |-> "t1", schema |-> "s1",
      columns |-> <<Col("id", "INTEGER", FALSE, TRUE, <<>>), d>> \o e] :
        d \in DataColumns, e \in {<<>>} \cup {<<x>> : x \in ExtraColumns}}

InitFields ==
    /\ catalog = [tables |-> {"t1"}, views |-> {"t1"}, routines |-> {},
                  rows |-> [r \in JsonRelations |-> "empty"]]
    /\ metadata \in {<<t>> : t \in SampledRelations}
    /\ table_cache = Empty /\ view_cache = Empty /\ enum_cache = Empty
    /\ fn_cache = Empty /\ proc_cache = Empty /\ trig_cache = Empty
    /\ proc = [p \in Procs |-> IdleProc]
    /\ threads = {}
    /\ built = FALSE
    /\ reloads = 0
    /\ ddl = 0
    /\ obs = NoObs
    /\ pg_proc = {} /\ discovery = NoDiscovery
    /\ arguments = <<>> /\ parsing = NoParsing
    /\ PlannerIdle
    /\ FilterIdle
    /\ \E outcome \in SampleOutcomes : request = [pc |-> "sampled", outcome |-> outcome]
    /\ reply = [_load_models |-> NoReply, _load_views |-> NoReply]

\* _load_models for the relation as a table: the sample, the fields, the
\* mapped class and the entry of the cache
LoadModels ==
    /\ request.pc = "sampled"
    /\ reply._load_models.pc = "idle"
    /\ LET table == metadata[1]
           sample == _get_sample_data(table, request.outcome)
       IN  IF sample.raised \/ MapperRaises(table)
           THEN /\ reply' = [reply EXCEPT !._load_models = [pc |-> "raised"]]
                /\ UNCHANGED table_cache
           ELSE /\ table_cache' = Put(table_cache, Key(include_schemas[1], table.name),
                                      [table |-> table,
                                       fields |-> TableFields(table, sample.value),
                                       pass |-> 0])
                /\ reply' = [reply EXCEPT !._load_models = [pc |-> "returned"]]
    /\ UNCHANGED <<catalog, metadata, view_cache, enum_cache, fn_cache, proc_cache,
                   trig_cache, proc, threads, built, reloads, ddl, obs>>
    /\ UNCHANGED <<routinevars, parsevars, plannervars, filtervars, request>>

\* _load_views for the relation as a view
LoadViews ==
    /\ request.pc = "sampled"
    /\ reply._load_views.pc = "idle"
    /\ LET table == metadata[1]
           sample == _get_sample_data(table, request.outcome)
       IN  IF sample.raised
           THEN /\ reply' = [reply EXCEPT !._load_views = [pc |-> "raised"]]
                /\ UNCHANGED view_cache
           ELSE /\ view_cache' = Put(view_cache, Key(include_schemas[1], table.name),
                                     [table |-> table,
                                      fields |-> ViewFields(table, sample.value),
                                      pass |-> 0])
                /\ reply' = [reply EXCEPT !._load_views = [pc |-> "returned"]]
    /\ UNCHANGED <<catalog, metadata, table_cache, enum_cache, fn_cache, proc_cache,
                   trig_cache, proc, threads, built, reloads, ddl, obs>>
    /\ UNCHANGED <<routinevars, parsevars, plannervars, filtervars, request>>

NextFields == LoadModels \/ LoadViews

SpecFields == InitFields /\ [][NextFields]_vars

\* the entries the two stages have put into their caches
LoadedEntries ==
    {table_cache[k] : k \in DOMAIN table_cache} \cup {view_cache[k] : k \in DOMAIN view_cache}

\* C24: the field of a JSON/JSONB column is a list of structured objects
\* when the sample value of the column is a sequence, and a single
\* structured object when the sample is absent or is no sequence; the
\* sample chooses nothing else, and no sample fails the stage.
C24_SampleChoosesListOrSingle ==
    /\ \A h \in {"_load_models", "_load_views"} : reply[h].pc # "raised"
    /\ reply._load_models.pc = "returned" => DOMAIN table_cache = {Key("s1", "t1")}
    /\ reply._load_views.pc = "returned" => DOMAIN view_cache = {Key("s1", "t1")}
    /\ \A e \in LoadedEntries :
          \A i \in DOMAIN e.table.columns :
              LET column == e.table.columns[i]
              IN  /\ column.type \in {"JSON", "JSONB"} =>
                        e.fields[column.name].shape =
                            IF request.outcome = "row_list" THEN "List[model]" ELSE "model"
                  /\ column.type = "TEXT[]" => e.fields[column.name].shape = "List[item]"
                  /\ column.type = "INTEGER" => e.fields[column.name].shape = "scalar"

C24_Witness ==
    /\ request.outcome = "row_list"
    /\ Key("s1", "t1") \in DOMAIN table_cache
    /\ Key("s1", "t1") \in DOMAIN view_cache
    /\ metadata[1].columns[2].type = "JSONB"
    /\ table_cache[Key("s1", "t1")].fields["data"].shape = "List[model]"
    /\ view_cache[Key("s1", "t1")].fields["data"].shape = "List[model]"

(***************************************************************************)
(* The metadata routes of one schema                                       *)
(***************************************************************************)
EntityKinds == {"tables", "views", "enums", "functions", "procedures", "triggers"}

\* pg_trigger: the triggers that call a routine, each with its timing, its
\* event and its table
TriggerBindings ==
    [tgfoid : {R_g.oid}, timing : {"BEFORE", "AFTER"}, event : {"INSERT", "UPDATE"},
     table_name : {"t1"}]

\* the trigger_events column of the catalog query (models.py:328-353): the
\* distinct "timing event" pairs of the triggers that call the routine
trigger_events(pg_trigger, oid) ==
    {<<t.timing, t.event>> : t \in {b \in pg_trigger : b.tgfoid = oid}}

TriggerEvent(timing, events, table_schema, table_name) ==
    [timing |-> timing, events |-> events,
     table_schema |-> table_schema, table_name |-> table_name]

\* the TriggerMetadata built by get_triggers and by _add_triggers_to_schema
TriggerMetadata(trig_metadata, schema) ==
    [name |-> trig_metadata.name, schema |-> trig_metadata.schema,
     type |-> trig_metadata.type, object_type |-> trig_metadata.object_type,
     parameters |-> trig_metadata.parameters,
     return_type |-> trig_metadata.return_type,
     trigger_data |-> TriggerEvent("AFTER", <<"UPDATE">>, schema, "")]

\* build_table_metadata, without the columns (see build_column_metadata)
build_table_metadata(table, schema) == [name |-> table.name, schema |-> schema]

HTTP404(detail) == [pc |-> "returned", status |-> 404, detail |-> detail, list |-> {}]
HTTP200(list) == [pc |-> "returned", status |-> 200, detail |-> "", list |-> list]

\* MetadataRouter: the six routes /{schema}/<kind>; a key f"{schema}.{name}"
\* splits into the schema and the name of its entry; the list is given as
\* the set of its items
MetadataRouter_get(kind, schema) ==
    LET items ==
          CASE kind = "tables" ->
                 {build_table_metadata(table_cache[k].table, schema) :
                     k \in {x \in DOMAIN table_cache : table_cache[x].table.schema = schema}}
            [] kind = "views" ->
                 {build_table_metadata(view_cache[k].table, schema) :
                     k \in {x \in DOMAIN view_cache : view_cache[x].table.schema = schema}}
            [] kind = "enums" ->
                 {[name |-> enum_cache[k].name, schema |-> schema] :
                     k \in {x \in DOMAIN enum_cache : enum_cache[x].schema = schema}}
            [] kind = "functions" ->
                 {[name |-> fn_cache[k].name, schema |-> fn_cache[k].schema] :
                     k \in {x \in DOMAIN fn_cache : fn_cache[x].schema = schema}}
            [] kind = "procedures" ->
                 {[name |-> proc_cache[k].name, schema |-> proc_cache[k].schema] :
                     k \in {x \in DOMAIN proc_cache : proc_cache[x].schema = schema}}
            [] kind = "triggers" ->
                 {TriggerMetadata(trig_cache[k], schema) :
                     k \in {x \in DOMAIN trig_cache : trig_cache[x].schema = schema}}
    IN  IF items = {} THEN HTTP404("No " \o kind \o " found in schema")
        ELSE HTTP200(items)

\* MetadataRouter._add_triggers_to_schema: schema.triggers
_add_triggers_to_schema(schema_name) ==
    {TriggerMetadata(trig_cache[k], schema_name) :
        k \in {x \in DOMAIN trig_cache : trig_cache[x].schema = schema_name}}

\* MetadataRouter.get_schemas: one SchemaMetadata per included schema
MetadataRouter_get_schemas ==
    IF include_schemas = <<>> THEN HTTP404("No schemas found")
    ELSE HTTP200({[name |-> include_schemas[i],
                   tables |-> MetadataRouter_get("tables", include_schemas[i]).list,
                   views |-> MetadataRouter_get("views", include_schemas[i]).list,
                   enums |-> MetadataRouter_get("enums", include_schemas[i]).list,
                   functions |-> MetadataRouter_get("functions", include_schemas[i]).list,
                   procedures |-> MetadataRouter_get("procedures", include_schemas[i]).list,
                   triggers |-> _add_triggers_to_schema(include_schemas[i])] :
                     i \in DOMAIN include_schemas})

\* MetadataGenerator._get_schema_or_404 and the six routes /{schema}/<kind>
\* over db_meta; meta.get(kind, []) of a key that is not there is empty
MetadataGenerator_get(kind, schema, db_meta) ==
    IF schema \notin DOMAIN db_meta THEN HTTP404("Schema not found or not introspected.")
    ELSE LET meta == db_meta[schema]
             tables == IF "tables" \in DOMAIN meta THEN meta["tables"] ELSE {}
         IN  CASE kind = "tables" -> HTTP200({t \in tables : ~t.is_view})
               [] kind = "views" -> HTTP200({t \in tables : t.is_view})
               [] OTHER -> HTTP200(IF kind \in DOMAIN meta THEN meta[kind] ELSE {})

\* the metadata prism introspected from a database that has entities of
\* the kinds `present` in schema s1
IntrospectedMetadata(present) ==
    [s \in {"s1"} |->
       [k \in present \ {"views"} |->
          CASE k = "tables" ->
                 {[name |-> "t1", schema |-> "s1", is_view |-> FALSE]}
                 \cup (IF "views" \in present
                       THEN {[name |-> "v1", schema |-> "s1", is_view |-> TRUE]} ELSE {})
            [] k = "enums" -> {[name |-> "status_enum", schema |-> "s1"]}
            [] k = "functions" -> {[name |-> "f", schema |-> "s1"]}
            [] k = "procedures" -> {[name |-> "p", schema |-> "s1"]}
            [] k = "triggers" -> {[name |-> "g", schema |-> "s1"]}]]

InitMetadata ==
    /\ \E present \in SUBSET EntityKinds, schema \in {"s1", "s9"}, kind \in EntityKinds :
       \E bound \in IF "triggers" \in present THEN SUBSET TriggerBindings \ {{}} ELSE {{}} :
         LET routines == (IF "functions" \in present THEN {R_f} ELSE {})
                         \cup (IF "procedures" \in present THEN {R_p} ELSE {})
                         \cup (IF "triggers" \in present THEN {R_g} ELSE {})
             loaded == _discover_functions(CHOOSE r \in function_info(routines) : TRUE, 0)
         IN  /\ catalog = [tables |-> IF "tables" \in present THEN {"t1"} ELSE {},
                           views |-> IF "views" \in present THEN {"v1"} ELSE {},
                           routines |-> routines,
                           rows |-> [r \in JsonRelations |-> "empty"]]
             /\ table_cache = IF "tables" \in present
                              THEN Put(Empty, Key("s1", "t1"),
                                       [table |-> T1, fields |-> TableFields(T1, NoSample),
                                        pass |-> 0])
                              ELSE Empty
             /\ view_cache = IF "views" \in present
                             THEN Put(Empty, Key("s1", "v1"),
                                      [table |-> V1, fields |-> ViewFields(V1, NoSample),
                                       pass |-> 0])
                             ELSE Empty
             /\ enum_cache = IF "enums" \in present
                             THEN AddEnums(Empty, T1, 1, "s1", 0) ELSE Empty
             /\ fn_cache = loaded.function_cache
             /\ proc_cache = loaded.procedure_cache
             /\ trig_cache = loaded.trigger_cache
             /\ request = [pc |-> "received", schema |-> schema, kind |-> kind,
                           pg_trigger |-> bound,
                           db_meta |-> IntrospectedMetadata(
                                          present \cup (IF "views" \in present
                                                        THEN {"tables"} ELSE {}))]
    /\ metadata = <<T1, T2, V1>>
    /\ proc = [p \in Procs |-> IdleProc]
    /\ threads = {}
    /\ built = TRUE
    /\ reloads = 0
    /\ ddl = 0
    /\ obs = NoObs
    /\ pg_proc = {} /\ discovery = NoDiscovery
    /\ arguments = <<>> /\ parsing = NoParsing
    /\ PlannerIdle
    /\ FilterIdle
    /\ reply = [forge |-> NoReply, prism |-> NoReply, get_schemas |-> NoReply]

\* forge: GET /dt/{schema}/{kind}
ForgeListing ==
    /\ request.pc = "received"
    /\ reply.forge.pc = "idle"
    /\ reply' = [reply EXCEPT !.forge = MetadataRouter_get(request.kind, request.schema)]
    /\ UNCHANGED <<passvars, routinevars, parsevars, plannervars, filtervars, request>>

\* prism: GET /dt/{schema}/{kind}
PrismListing ==
    /\ request.pc = "received"
    /\ reply.prism.pc = "idle"
    /\ reply' = [reply EXCEPT !.prism =
                    MetadataGenerator_get(request.kind, request.schema, request.db_meta)]
    /\ UNCHANGED <<passvars, routinevars, parsevars, plannervars, filtervars, request>>

\* forge: GET /dt/schemas
ForgeSchemas ==
    /\ request.pc = "received"
    /\ reply.get_schemas.pc = "idle"
    /\ reply' = [reply EXCEPT !.get_schemas = MetadataRouter_get_schemas]
    /\ UNCHANGED <<passvars, routinevars, parsevars, plannervars, filtervars, request>>

NextMetadata == ForgeListing \/ PrismListing \/ ForgeSchemas

SpecMetadata == InitMetadata /\ [][NextMetadata]_vars

\* the trigger entries the forge routes have reported
ReportedTriggers ==
    (IF reply.forge.pc = "returned" /\ request.kind = "triggers"
     THEN reply.forge.list ELSE {})
    \cup (IF reply.get_schemas.pc = "returned"
          THEN UNION {s.triggers : s \in reply.get_schemas.list} ELSE {})

\* C23: the trigger_data reported for a trigger routine carries a timing, a
\* set of events and a table of the triggers bound to the routine in the
\* catalog.
C23_TriggerDataFromCatalog ==
    \A entry \in ReportedTriggers :
        LET bound == {b \in request.pg_trigger : b.tgfoid = R_g.oid}
        IN  /\ entry.trigger_data.timing \in {b.timing : b \in bound}
            /\ {entry.trigger_data.events[i] : i \in DOMAIN entry.trigger_data.events}
                  = {b.event : b \in {x \in bound : x.timing = entry.trigger_data.timing}}
            /\ entry.trigger_data.table_name \in {b.table_name : b \in bound}

\* C25: a listing of one kind for one schema answers 404 exactly when the
\* schema is unknown, and the empty list for a known schema with no entity
\* of the kind.
C25_NotFoundOnlyForUnknownSchema ==
    \A r \in {reply[h] : h \in {m \in {"forge", "prism"} : reply[m].pc = "returned"}} :
        /\ r.status = 404 <=> (\A i \in DOMAIN include_schemas :
                                  include_schemas[i] # request.schema)
        /\ r.status # 404 => r.status = 200

====
